---- MODULE Spec2Model ----
(***************************************************************************)
(* Weather-risk rules engine of buildflow-backend.                         *)
(*                                                                         *)
(*   app/services/rules_engine.py   comparators, aggregations, per_day and *)
(*                                  rolling evaluation, evaluate_rules     *)
(*   app/services/apply_rules.py    load_days_for_apply, dedupe + commit   *)
(*                                  (apply_rules_orchestrator)             *)
(*   app/api/v1/rules.py            POST /sectors/{id}/apply-rules         *)
(*                                                                         *)
(* Python values are tagged records:                                       *)
(*   None            [t |-> "none"]                                        *)
(*   int/float/Dec.  [t |-> "num", n |-> numerator, d |-> denominator]     *)
(*   str             [t |-> "str", s |-> <<word, ...>>]                    *)
(*   list/tuple      [t |-> "list", xs |-> <<value, ...>>]                 *)
(*   date            [t |-> "date", n |-> day of January 2025]             *)
(*   float           [t |-> "float", n, d] where str() shows the ".0"      *)
(* A str is a sequence of words (TLA+ strings): one word is an indivisible *)
(* run of characters ("Rain", "{", "target_date", " ").  A Python dict is  *)
(* a TLA+ function whose DOMAIN is the set of keys present.                *)
(* The outcome of a Python call is [raised |-> FALSE, val |-> v] when it   *)
(* returns v and [raised |-> TRUE] when it raises.                         *)
(***************************************************************************)
EXTENDS Integers, Sequences, FiniteSets, TLC

VARIABLES
    \* the database
    db,             \* weather tables and the sector's project (never written here)
    issue,          \* committed rows of table issue
    rules_run,      \* committed rows of table rules_run
    change_log,     \* committed rows of table change_log
    \* one apply-rules call (a request at a time)
    now,            \* the clock, in units of the dedupe window's granularity
    req,            \* the request being served or served last
    pc,             \* "idle", "loop" (inside the commit loop) or "returned"
    txn,            \* the open transaction: its now() and its uncommitted rows
    planned,        \* actions.planned of the running call
    committed,      \* actions.committed so far
    skipped,        \* actions.skipped so far
    idx,            \* position in planned of the commit loop
    report,         \* what the last call returned or raised
    \* history
    prev,           \* summary of the call before the last one
    issue_before,   \* table issue when the last call started
    nruns,          \* calls started so far
    \* pure-function harness
    call,           \* the call being made (a record)
    ret,            \* its outcome, or Pending
    \* weather capture (services/weather_capture.py)
    weather_run,    \* committed rows of table weather_run
    weather_run_day,\* committed rows of table weather_run_day
    capture,        \* the create_weather_run call: position, targets, open transaction
    \* status endpoints (api/v1/status.py)
    hierarchy,      \* status (and parent) of the rows of project, lot and sector
    status_call,    \* the last status request and its outcome
    \* concurrent apply-rules calls
    sessions        \* per database session: position, transaction, lists

capvars    == <<weather_run, weather_run_day, capture>>
statusvars == <<hierarchy, status_call>>
othervars  == <<capvars, statusvars, sessions>>
dbvars  == <<db, issue, rules_run, change_log, othervars>>
runvars == <<now, req, pc, txn, planned, committed, skipped, idx, report,
             prev, issue_before, nruns>>
fnvars  == <<call, ret>>
vars    == <<dbvars, runvars, fnvars>>

----------------------------------------------------------------------------
(* Python values *)

None == [t |-> "none"]

RECURSIVE Gcd(_, _)
Gcd(a, b) == IF b = 0 THEN a ELSE Gcd(b, a % b)

Abs(i) == IF i < 0 THEN -i ELSE i

\* the number n/d (d > 0) in lowest terms, so that equal numbers are equal records
Frac(n, d) ==
    LET g == Gcd(Abs(n), d)
    IN  [t |-> "num", n |-> n \div g, d |-> d \div g]

Num(i) == [t |-> "num", n |-> i, d |-> 1]
Str(ws) == [t |-> "str", s |-> ws]
List(vs) == [t |-> "list", xs |-> vs]
Date(i) == [t |-> "date", n |-> i]

Ret(v) == [raised |-> FALSE, val |-> v]
Raise == [raised |-> TRUE]
Pending == [t |-> "pending"]

\* dict.get(k, default)
Get(dict, k, default) == IF k \in DOMAIN dict THEN dict[k] ELSE default

Digits == {"0", "1", "2", "3", "4", "5", "6", "7", "8", "9"}

DigitVal(w) ==
    CASE w = "0" -> 0 [] w = "1" -> 1 [] w = "2" -> 2 [] w = "3" -> 3
      [] w = "4" -> 4 [] w = "5" -> 5 [] w = "6" -> 6 [] w = "7" -> 7
      [] w = "8" -> 8 [] w = "9" -> 9

RECURSIVE ParseDigits(_)
ParseDigits(ws) ==
    IF ws = <<>> THEN 0
    ELSE 10 * ParseDigits(SubSeq(ws, 1, Len(ws) - 1)) + DigitVal(ws[Len(ws)])

\* float(v): a number is itself, a str of digits parses, everything else
\* (None, a list, a date, a str that is no number) raises
float(v) ==
    IF v.t = "num" THEN Ret(v)
    ELSE IF v.t = "str" /\ v.s # <<>> /\ \A i \in 1..Len(v.s) : v.s[i] \in Digits
         THEN Ret(Num(ParseDigits(v.s)))
    ELSE Raise

\* a < b, a <= b for numbers
NumLt(a, b) == a.n * b.d < b.n * a.d
NumLe(a, b) == a.n * b.d <= b.n * a.d

\* needle is a contiguous sub-sequence of hay (str.__contains__)
IsSubstring(needle, hay) ==
    \E i \in 1..(Len(hay) - Len(needle) + 1) :
        SubSeq(hay, i, i + Len(needle) - 1) = needle

\* `actual in value`: membership for a list, substring for two strs,
\* TypeError for any other right-hand side
py_in(actual, value) ==
    IF value.t = "list" THEN Ret(\E i \in 1..Len(value.xs) : value.xs[i] = actual)
    ELSE IF value.t = "str"
         THEN IF actual.t = "str" THEN Ret(IsSubstring(actual.s, value.s)) ELSE Raise
    ELSE Raise

\* `lo, hi = value`: a list of two items, or a str of two characters
\* (iterated character by character); anything else raises
unpack2(value) ==
    IF value.t = "list" /\ Len(value.xs) = 2 THEN Ret(value.xs)
    ELSE IF value.t = "str" /\ Len(value.s) = 2
         THEN Ret(<<Str(<<value.s[1]>>), Str(<<value.s[2]>>)>>)
    ELSE Raise

----------------------------------------------------------------------------
(* rules_engine.py: comparators *)

\* d.get("forecast_horizon_days", 999) in eval_rule_rolling
HorizonDefault == 999

CompareOps == {">", ">=", "<", "<=", "=="}

NumCmp(op, a, b) ==
    CASE op = ">"  -> NumLt(b, a)
      [] op = ">=" -> NumLe(b, a)
      [] op = "<"  -> NumLt(a, b)
      [] op = "<=" -> NumLe(a, b)
      [] op = "==" -> a = b

\* the body of the `between` branch's try block
between_try(actual, value) ==
    LET u == unpack2(value)
    IN  IF u.raised THEN Raise
        ELSE LET a  == float(actual)
                 lo == float(u.val[1])
                 hi == float(u.val[2])
             IN  IF a.raised \/ lo.raised \/ hi.raised THEN Raise
                 ELSE Ret(NumLe(lo.val, a.val) /\ NumLe(a.val, hi.val))

cmp_value(op, actual, value) ==
    IF actual = None THEN Ret(FALSE)
    ELSE IF op \in CompareOps
         THEN LET a == float(actual)
                  b == float(value)
              IN  IF a.raised \/ b.raised THEN Ret(FALSE)
                  ELSE Ret(NumCmp(op, a.val, b.val))
    ELSE IF op = "in"
         THEN LET r == py_in(actual, value)
              IN  IF r.raised THEN Ret(FALSE) ELSE r
    ELSE IF op = "between"
         THEN LET r == between_try(actual, value)
              IN  IF r.raised THEN Ret(FALSE) ELSE r
    ELSE Ret(FALSE)

----------------------------------------------------------------------------
(* rules_engine.py: templates *)

\* str(v) for the values a context holds
PyStr(v) ==
    CASE v.t = "str"  -> v.s
      [] v.t = "num"  -> IF v.d = 1 THEN <<ToString(v.n)>>
                         ELSE <<ToString(v.n), "/", ToString(v.d)>>
      [] v.t = "float" -> IF v.d = 1 THEN <<ToString(v.n) \o ".0">>
                          ELSE <<ToString(v.n), "/", ToString(v.d)>>
      [] v.t = "date" -> <<(IF v.n < 10 THEN "2025-01-0" ELSE "2025-01-") \o ToString(v.n)>>
      [] v.t = "none" -> <<"None">>
      [] OTHER        -> <<"[", "]">>

\* faulty variant: str(val) whatever val is, so that None shows as "None"
_fmt_str(val) == PyStr(val)

_fmt(val) == IF val = None THEN <<>> ELSE PyStr(val)

\* s.replace(old, new): every non-overlapping occurrence, left to right
RECURSIVE Replace(_, _, _)
Replace(s, old, new) ==
    IF Len(s) < Len(old) THEN s
    ELSE IF SubSeq(s, 1, Len(old)) = old
         THEN new \o Replace(SubSeq(s, Len(old) + 1, Len(s)), old, new)
    ELSE <<s[1]>> \o Replace(SubSeq(s, 2, Len(s)), old, new)

\* the loop of render_tmpl over ctx.items(), items being <<key, value>> pairs
RECURSIVE RenderLoop(_, _)
RenderLoop(out, items) ==
    IF items = <<>> THEN out
    ELSE RenderLoop(Replace(out, <<"{", items[1][1], "}">>, _fmt(items[1][2])),
                    Tail(items))

\* render_tmpl(tmpl, ctx) on the words of tmpl
render_tmpl(tmpl, items) == RenderLoop(tmpl, items)

----------------------------------------------------------------------------
(* rules_engine.py: metrics, per_day and rolling evaluation *)

_METRICS == {"weather_code", "temp_min_c", "temp_max_c", "precipitation_mm", "wind_kmh"}

\* faulty variant: the lookup without the check against _METRICS
get_metric_any(day, name) == Get(day, name, None)

get_metric(day, name) ==
    IF name \notin _METRICS THEN None ELSE Get(day, name, None)

\* isinstance(v, int)
IsInt(v) == v.t = "num" /\ v.d = 1

Match(rule, actual, aggregate) ==
    [ rule_id   |-> Get(rule, "id", None),
      rule_name |-> Get(rule, "name", None),
      severity  |-> Get(rule, "severity", "medium"),
      evidence  |-> [ metric |-> rule["metric"], op |-> rule["op"],
                      value |-> Get(rule, "value", None),
                      actual |-> actual, aggregate |-> aggregate ] ]

\* eval_rule_per_day: the match, or None
eval_rule_per_day(rule, day) ==
    LET when_horizon_max == Get(rule, "when_horizon_max", None)
        horizon == Get(day, "forecast_horizon_days", None)
        actual == get_metric(day, rule["metric"])
    IN  IF when_horizon_max # None /\ IsInt(horizon)
           /\ NumLt(when_horizon_max, horizon)
        THEN None
        ELSE IF ~cmp_value(rule["op"], actual, Get(rule, "value", None)).val
        THEN None
        ELSE Match(rule, actual, None)

NumAdd(a, b) == Frac(a.n * b.d + b.n * a.d, a.d * b.d)

RECURSIVE SumSeq(_)
SumSeq(arr) == IF arr = <<>> THEN Num(0) ELSE NumAdd(arr[1], SumSeq(Tail(arr)))

MaxSeq(arr) == CHOOSE x \in {arr[i] : i \in 1..Len(arr)} :
                   \A i \in 1..Len(arr) : NumLe(arr[i], x)
MinSeq(arr) == CHOOSE x \in {arr[i] : i \in 1..Len(arr)} :
                   \A i \in 1..Len(arr) : NumLe(x, arr[i])

\* [v for v in vals if v is not None]
RECURSIVE NotNone(_)
NotNone(vals) ==
    IF vals = <<>> THEN <<>>
    ELSE IF vals[1] = None THEN NotNone(Tail(vals))
    ELSE <<vals[1]>> \o NotNone(Tail(vals))

\* faulty variant: no emptiness check, sum([]) and len([]) are 0
agg_block_empty_zero(vals, agg) ==
    LET kept == NotNone(vals)
        arr == [i \in 1..Len(kept) |-> float(kept[i]).val]
    IN  IF agg = "sum" THEN Ret(SumSeq(arr))
        ELSE IF agg = "count" THEN Ret(Num(Len(arr)))
        ELSE IF Len(arr) = 0 THEN Ret(None)
        ELSE IF agg = "avg"
             THEN LET s == SumSeq(arr) IN Ret(Frac(s.n, s.d * Len(arr)))
        ELSE IF agg = "max" THEN Ret(MaxSeq(arr))
        ELSE IF agg = "min" THEN Ret(MinSeq(arr))
        ELSE Ret(None)

\* agg_block: float(v) of every kept value (raising when one does not
\* coerce), None when nothing is kept
agg_block(vals, agg) ==
    LET kept == NotNone(vals)
    IN  IF \E i \in 1..Len(kept) : float(kept[i]).raised THEN Raise
        ELSE LET arr == [i \in 1..Len(kept) |-> float(kept[i]).val]
             IN  IF Len(arr) = 0 THEN Ret(None)
                 ELSE IF agg = "sum" THEN Ret(SumSeq(arr))
                 ELSE IF agg = "avg"
                      THEN LET s == SumSeq(arr) IN Ret(Frac(s.n, s.d * Len(arr)))
                 ELSE IF agg = "max" THEN Ret(MaxSeq(arr))
                 ELSE IF agg = "min" THEN Ret(MinSeq(arr))
                 ELSE IF agg = "count" THEN Ret(Num(Len(arr)))
                 ELSE Ret(None)

\* faulty variant: the comparison turned around, a window is dropped when a
\* day's horizon is below wh
RECURSIVE AnyHorizonUnder(_, _)
AnyHorizonUnder(block, wh) ==
    IF block = <<>> THEN Ret(FALSE)
    ELSE LET h == Get(block[1], "forecast_horizon_days", Num(HorizonDefault))
         IN  IF h.t # "num" THEN Raise
             ELSE IF NumLt(h, wh) THEN Ret(TRUE)
             ELSE AnyHorizonUnder(Tail(block), wh)

\* any(d.get("forecast_horizon_days", 999) > int(wh) for d in block): the
\* days are read in order; a day whose horizon is present but None makes
\* the comparison raise unless an earlier day already exceeded wh
RECURSIVE AnyHorizonOver(_, _)
AnyHorizonOver(block, wh) ==
    IF block = <<>> THEN Ret(FALSE)
    ELSE LET h == Get(block[1], "forecast_horizon_days", Num(HorizonDefault))
         IN  IF h.t # "num" THEN Raise
             ELSE IF NumLt(wh, h) THEN Ret(TRUE)
             ELSE AnyHorizonOver(Tail(block), wh)

Min(a, b) == IF a <= b THEN a ELSE b

\* s[lo:hi] for 0 <= lo <= hi: the slice stops at the end of s
Slice(s, lo, hi) == SubSeq(s, lo + 1, Min(hi, Len(s)))

\* faulty variant: no `break`, the short blocks at the end are windows too
RECURSIVE WindowsFrom_partial(_, _, _)
WindowsFrom_partial(rule, days, i) ==
    IF i >= Len(days) THEN <<>>
    ELSE <<[start |-> i, block |-> Slice(days, i, i + rule["window_days"])]>>
         \o WindowsFrom_partial(rule, days, i + 1)

\* lines 116-119: the blocks `for i in range(len(days))` goes on with, from
\* the (0-based) index i on, each with the index it starts at
RECURSIVE WindowsFrom(_, _, _)
WindowsFrom(rule, days, i) ==
    IF i >= Len(days) THEN <<>>
    ELSE LET block == Slice(days, i, i + rule["window_days"])
         IN  IF Len(block) < rule["window_days"] THEN <<>>
             ELSE <<[start |-> i, block |-> block]>> \o WindowsFrom(rule, days, i + 1)

\* the body of eval_rule_rolling's loop from (1-based) start index i on:
\* the matches as <<end_idx, match>> with the 0-based end_idx of the source
RECURSIVE RollingFrom(_, _, _)
RollingFrom(rule, days, i) ==
    LET W == rule["window_days"]
        wh == Get(rule, "when_horizon_max", None)
    IN  IF i > Len(days) \/ Len(Slice(days, i - 1, i - 1 + W)) < W THEN Ret(<<>>)
        ELSE
        LET block == Slice(days, i - 1, i - 1 + W)
            over == IF wh = None THEN Ret(FALSE) ELSE AnyHorizonOver(block, wh)
            rest == RollingFrom(rule, days, i + 1)
        IN  IF over.raised THEN Raise
            ELSE IF over.val THEN rest
            ELSE
            LET vals == [k \in 1..Len(block) |-> get_metric(block[k], rule["metric"])]
                agg_val == agg_block(vals, rule["aggregate"])
            IN  IF agg_val.raised THEN Raise
                ELSE IF agg_val.val = None THEN rest
                ELSE IF rest.raised THEN Raise
                ELSE IF cmp_value(rule["op"], agg_val.val, Get(rule, "value", None)).val
                THEN Ret(<<<<i + W - 2,
                             Match(rule, agg_val.val,
                                   Str(<<rule["aggregate"], "(", ToString(W), ")">>))>>>>
                         \o rest.val)
                ELSE rest

eval_rule_rolling(rule, days) == RollingFrom(rule, days, 1)

----------------------------------------------------------------------------
(* rules_engine.py: evaluate_rules *)

\* the keys of a day record in the order the loaders insert them
\* (a field the caller adds beyond the loaders' columns comes last)
KeyOrder == << "target_date", "weather_code", "temp_min_c", "temp_max_c",
               "precipitation_mm", "wind_kmh", "forecast_horizon_days",
               "humidity" >>

RECURSIVE ItemsFrom(_, _)
ItemsFrom(day, k) ==
    IF k > Len(KeyOrder) THEN <<>>
    ELSE IF KeyOrder[k] \in DOMAIN day
         THEN << <<KeyOrder[k], day[KeyOrder[k]]>> >> \o ItemsFrom(day, k + 1)
    ELSE ItemsFrom(day, k + 1)

\* {**day, "sector_id": sector_id}.items()
CtxItems(day, sector_id) == ItemsFrom(day, 1) \o << <<"sector_id", sector_id>> >>

EmptyDict == [k \in {} |-> None]

DefaultTitle == Str(<<"Issue gerada por regra">>)
DefaultDedupeTmpl ==
    Str(<<"issue:", "{", "sector_id", "}", ":", "{", "target_date", "}",
          ":", "{", "name", "}">>)

\* the planned create_issue action of one match (lines 172-187, 194-209)
PlannedAction(rule, day, sector_id) ==
    LET ctx == CtxItems(day, sector_id)
        suggest == Get(rule, "suggest", EmptyDict)
        title == Get(suggest, "title", Get(rule, "name", DefaultTitle))
        desc_tmpl == Get(suggest, "description_tmpl", Str(<<>>))
        dedupe_tmpl == Get(rule, "dedupe_key_tmpl", DefaultDedupeTmpl)
    IN  [ type        |-> "create_issue",
          target      |-> [sector_id |-> sector_id, date |-> day["target_date"]],
          title       |-> title,
          description |-> Str(render_tmpl(desc_tmpl.s, ctx)),
          severity    |-> Get(rule, "severity", "medium"),
          category    |-> "weather",
          dedupe_key  |-> Str(render_tmpl(dedupe_tmpl.s,
                              ctx \o << <<"name", Get(rule, "name", Str(<<"rule">>))>> >>)),
          rule_id     |-> Get(rule, "id", None) ]

CreatesIssue(rule) == Get(Get(rule, "auto_actions", EmptyDict), "create_issue", TRUE)

ActionsFor(rule, day, sector_id) ==
    IF CreatesIssue(rule) THEN <<PlannedAction(rule, day, sector_id)>> ELSE <<>>

\* faulty variant: no `if end_idx == i`, every match goes to every day
RECURSIVE EndingAt_any(_, _)
EndingAt_any(ms, i) ==
    IF ms = <<>> THEN <<>> ELSE <<ms[1][2]>> \o EndingAt_any(Tail(ms), i)

\* the matches of a rolling rule whose end_idx is the (0-based) index i
RECURSIVE EndingAt(_, _)
EndingAt(ms, i) ==
    IF ms = <<>> THEN <<>>
    ELSE IF ms[1][1] = i THEN <<ms[1][2]>> \o EndingAt(Tail(ms), i)
    ELSE EndingAt(Tail(ms), i)

\* one pass of the inner loop `for rule in rules` for the day at (1-based)
\* position i: the matches and planned actions it appends
RuleOnDay(rule, days, i, sector_id) ==
    LET scope == Get(rule, "scope", "per_day")
    IN  IF scope = "per_day"
        THEN LET m == eval_rule_per_day(rule, days[i])
             IN  IF m = None THEN Ret([matches |-> <<>>, actions |-> <<>>])
                 ELSE Ret([matches |-> <<m>>,
                           actions |-> ActionsFor(rule, days[i], sector_id)])
        ELSE IF scope = "rolling"
        THEN LET r == eval_rule_rolling(rule, days)
             IN  IF r.raised THEN Raise
                 ELSE LET ms == EndingAt(r.val, i - 1)
                      IN  Ret([matches |-> ms,
                               actions |-> IF ms = <<>> THEN <<>>
                                           ELSE ActionsFor(rule, days[i], sector_id)])
        ELSE Ret([matches |-> <<>>, actions |-> <<>>])

\* faulty variant: the matches of a later rule put before those of an
\* earlier one
RECURSIVE RulesOnDay_reversed(_, _, _, _, _)
RulesOnDay_reversed(rules, k, days, i, sector_id) ==
    IF k > Len(rules) THEN Ret([matches |-> <<>>, actions |-> <<>>])
    ELSE LET one == RuleOnDay(rules[k], days, i, sector_id)
         IN  IF one.raised THEN Raise
             ELSE LET rest == RulesOnDay_reversed(rules, k + 1, days, i, sector_id)
                  IN  IF rest.raised THEN Raise
                      ELSE Ret([matches |-> rest.val.matches \o one.val.matches,
                                actions |-> rest.val.actions \o one.val.actions])

RECURSIVE RulesOnDay(_, _, _, _, _)
RulesOnDay(rules, k, days, i, sector_id) ==
    IF k > Len(rules) THEN Ret([matches |-> <<>>, actions |-> <<>>])
    ELSE LET one == RuleOnDay(rules[k], days, i, sector_id)
         IN  IF one.raised THEN Raise
             ELSE LET rest == RulesOnDay(rules, k + 1, days, i, sector_id)
                  IN  IF rest.raised THEN Raise
                      ELSE Ret([matches |-> one.val.matches \o rest.val.matches,
                                actions |-> one.val.actions \o rest.val.actions])

DayOut(day, matches) ==
    [ target_date |-> day["target_date"],
      values |-> [ weather_code          |-> Get(day, "weather_code", None),
                   temp_min_c            |-> Get(day, "temp_min_c", None),
                   temp_max_c            |-> Get(day, "temp_max_c", None),
                   precipitation_mm      |-> Get(day, "precipitation_mm", None),
                   wind_kmh              |-> Get(day, "wind_kmh", None),
                   forecast_horizon_days |-> Get(day, "forecast_horizon_days", Num(0)) ],
      matches |-> matches ]

RECURSIVE DaysFrom(_, _, _, _)
DaysFrom(sector_id, days, rules, i) ==
    IF i > Len(days) THEN Ret([days |-> <<>>, planned |-> <<>>])
    ELSE LET today == RulesOnDay(rules, 1, days, i, sector_id)
         IN  IF today.raised THEN Raise
             ELSE LET rest == DaysFrom(sector_id, days, rules, i + 1)
                  IN  IF rest.raised THEN Raise
                      ELSE Ret([days |-> <<DayOut(days[i], today.val.matches)>>
                                             \o rest.val.days,
                                planned |-> today.val.actions \o rest.val.planned])

\* evaluate_rules: {"days": days_out, "actions": {"planned": ...}}, or the
\* exception a rule evaluation lets escape
evaluate_rules(sector_id, days, rules) == DaysFrom(sector_id, days, rules, 1)

----------------------------------------------------------------------------
(* apply_rules.py: loading the days of the window *)

\* HTTPException(status_code)
HttpError(code) == [raised |-> TRUE, code |-> code]

\* a row of weather_snapshot / a day record, with the columns of the SELECT
DayRow(date, precipitation_mm, horizon) ==
    [ target_date |-> Date(date), weather_code |-> None, temp_min_c |-> None,
      temp_max_c |-> None, precipitation_mm |-> precipitation_mm,
      wind_kmh |-> None, forecast_horizon_days |-> horizon ]

\* the batch ORDER BY finished_at DESC ... LIMIT 1 picks among S
Latest(S) ==
    IF S = {} THEN None
    ELSE CHOOSE b \in S : \A c \in S : c.finished_at <= b.finished_at

Covering(start, end) ==
    {b \in db.weather_batch : b.window_start <= start /\ b.window_end >= end}
Intersecting(start, end) ==
    {b \in db.weather_batch : b.window_end >= start /\ b.window_start <= end}

\* _pick_batch_for_window (every batch of db is completed and of the sector)
_pick_batch_for_window(start, end, prefer) ==
    LET batch == Latest(Covering(start, end))
    IN  IF batch # None THEN Ret(batch)
        ELSE IF prefer = "partial" THEN Ret(Latest(Intersecting(start, end)))
        ELSE IF prefer = "exact" THEN HttpError(404)
        ELSE Ret(None)

SnapshotAt(batch_id, d) ==
    {r \in db.weather_snapshot : r.batch_id = batch_id /\ r.row["target_date"] = Date(d)}

\* _load_days_from_snapshots: the rows of the batch in start..end by date
RECURSIVE _load_days_from_snapshots(_, _, _)
_load_days_from_snapshots(batch_id, start, end) ==
    IF start > end THEN <<>>
    ELSE (IF SnapshotAt(batch_id, start) = {} THEN <<>>
          ELSE <<(CHOOSE r \in SnapshotAt(batch_id, start) : TRUE).row>>)
         \o _load_days_from_snapshots(batch_id, start + 1, end)

\* _load_day_from_baseline: the latest pinned baseline of the date, with
\* forecast_horizon_days forced to 0, or None
_load_day_from_baseline(project_id, d) ==
    LET rows == {b \in db.weather_baseline :
                     b.project_id = project_id /\ b.row["target_date"] = Date(d)}
    IN  IF rows = {} THEN None
        ELSE LET b == CHOOSE x \in rows : \A y \in rows : y.pinned_at <= x.pinned_at
             IN  [b.row EXCEPT !["forecast_horizon_days"] = Num(0)]

\* the loop of the baseline branch: days without a baseline are left out
RECURSIVE BaselineDays(_, _, _)
BaselineDays(project_id, d, end) ==
    IF d > end THEN <<>>
    ELSE LET row == _load_day_from_baseline(project_id, d)
         IN  (IF row # None THEN <<row>> ELSE <<>>)
             \o BaselineDays(project_id, d + 1, end)

\* faulty variant: the snapshot of the date before its baseline
RECURSIVE MixedDays_snapshot_first(_, _, _, _)
MixedDays_snapshot_first(project_id, batch, d, end) ==
    IF d > end THEN <<>>
    ELSE LET b == IF project_id # None THEN _load_day_from_baseline(project_id, d)
                  ELSE None
             snap == IF batch = None THEN {} ELSE SnapshotAt(batch.id, d)
             day == IF snap # {} THEN (CHOOSE r \in snap : TRUE).row
                    ELSE IF b # None THEN b
                    ELSE [target_date |-> Date(d)]
         IN  <<day>> \o MixedDays_snapshot_first(project_id, batch, d + 1, end)

\* the loop of the auto/mixed branch: baseline, else snapshot, else a
\* record holding only the date
RECURSIVE MixedDays(_, _, _, _)
MixedDays(project_id, batch, d, end) ==
    IF d > end THEN <<>>
    ELSE LET b == IF project_id # None THEN _load_day_from_baseline(project_id, d)
                  ELSE None
             snap == IF batch = None THEN {} ELSE SnapshotAt(batch.id, d)
             day == IF b # None THEN b
                    ELSE IF snap # {} THEN (CHOOSE r \in snap : TRUE).row
                    ELSE [target_date |-> Date(d)]
         IN  <<day>> \o MixedDays(project_id, batch, d + 1, end)

\* load_days_for_apply: {"source_used", "window_start", "window_end", "days"}
\* (timezone, latitude and longitude of the batch are not modelled)
load_days_for_apply(start, days, prefer, data_use) ==
    LET end == start + days - 1
        project_id == db.project_id
        pick == _pick_batch_for_window(start, end,
                    IF prefer \in {"latest", "partial", "exact"} THEN prefer ELSE "latest")
        Ctx(used, out_days) ==
            Ret([source_used |-> used, window_start |-> start, window_end |-> end,
                 days |-> out_days])
    IN  IF project_id = None /\ data_use \in {"baseline", "auto"} THEN HttpError(422)
        ELSE IF data_use = "snapshots"
        THEN IF pick.raised THEN pick
             ELSE IF pick.val = None THEN HttpError(404)
             ELSE Ctx("snapshots", _load_days_from_snapshots(pick.val.id, start, end))
        ELSE IF data_use = "baseline"
        THEN Ctx("baseline", BaselineDays(project_id, start, end))
        ELSE IF pick.raised THEN pick
             ELSE Ctx("mixed", MixedDays(project_id, pick.val, start, end))

----------------------------------------------------------------------------
(* apply_rules.py: apply_rules_orchestrator *)

\* bounds of the apply-rules model
NDays == 2           \* days of the requested window
MaxRules == 2        \* rules of a request
MaxRuns == 3         \* apply-rules calls of a behaviour
MaxTime == 2         \* last tick of the clock
DedupeMinutes == 1   \* dedupe_minutes of the request, in ticks

NoTxn == [now |-> 0, issue |-> {}, rules_run |-> {}, change_log |-> {}]

\* no weather capture, no status request and no second session
IdleOthers ==
    /\ weather_run = {} /\ weather_run_day = {}
    /\ capture = [pc |-> "none"]
    /\ hierarchy = [sector |-> <<>>, lot |-> <<>>, project |-> <<>>]
    /\ status_call = [n |-> 0]
    /\ sessions = <<>>

\* faulty variant: a query that misses the rows the transaction itself inserted
VisibleCommitted == issue

\* rows of table issue the open transaction sees
Visible == issue \cup txn.issue

\* faulty variant: a check that never finds an issue
_dedupe_hit_none(sector_id, issue_date, title, dedupe_minutes) == FALSE

\* _dedupe_hit: an issue of the sector, date and title created within the
\* last dedupe_minutes (created_at is the insert's now())
_dedupe_hit(sector_id, issue_date, title, dedupe_minutes) ==
    \E r \in Visible :
        /\ r.sector_id = sector_id
        /\ r.issue_date = issue_date
        /\ r.title = title
        /\ r.created_at >= txn.now - dedupe_minutes

\* the row INSERT INTO issue ... RETURNING * gives back
_create_issue(sector_id, issue_date, title, description, severity, created_by) ==
    [ id |-> <<nruns, idx>>, sector_id |-> sector_id, issue_date |-> issue_date,
      title |-> title, description |-> description, severity |-> severity,
      status |-> "open", created_by |-> created_by, created_at |-> txn.now ]

\* the warnings loop: a day record holding neither key
RECURSIVE MissingWarnings(_)
MissingWarnings(days_data) ==
    IF days_data = <<>> THEN <<>>
    ELSE (IF "weather_code" \notin DOMAIN days_data[1]
             /\ "precipitation_mm" \notin DOMAIN days_data[1]
          THEN <<days_data[1]["target_date"]>> ELSE <<>>)
         \o MissingWarnings(Tail(days_data))

RECURSIVE CountMatches(_)
CountMatches(days_out) ==
    IF days_out = <<>> THEN 0
    ELSE Len(days_out[1].matches) + CountMatches(Tail(days_out))

NoReport == [status |-> "none"]

\* what is kept of the call before the last one: of a commit run that
\* returned, when it ran and its actions
Summary(rep) ==
    IF rep.status = "ok" /\ rep.mode = "commit"
    THEN [status |-> "ok", mode |-> "commit", t |-> rep.t, actions |-> rep.actions]
    ELSE IF rep.status = "ok" THEN [status |-> "ok", mode |-> rep.mode]
    ELSE [status |-> rep.status]

\* what a call raises; undone counts the issue rows its transaction had
\* inserted
ErrorReport(r, t, code, undone) ==
    [ status |-> "error", code |-> code, path |-> r.path, mode |-> r.mode, t |-> t,
      undone |-> undone ]

\* `if mode == "commit":`
PersistsAlways(mode) == TRUE

Persists(mode) == mode = "commit"

\* the rows of a table once the session closes without db.commit()
PartialCommit(rows, pending) == rows \cup pending

Rollback(rows, pending) == rows

\* the dict apply_rules_orchestrator returns (lines 229-254)
OrchReport(r, t, ctx, days_out, warnings, pl, co, sk) ==
    [ status |-> "ok", path |-> "orchestrator", mode |-> r.mode, t |-> t,
      context |-> [ sector_id |-> r.sector_id, window_start |-> ctx.window_start,
                    window_end |-> ctx.window_end, source_used |-> ctx.source_used ],
      stats |-> [ rules_evaluated |-> Len(r.rules), days_evaluated |-> r.days,
                  matches_found |-> CountMatches(days_out),
                  actions_planned |-> Len(pl), actions_committed |-> Len(co) ],
      days |-> days_out,
      actions |-> [planned |-> pl, committed |-> co, skipped |-> sk],
      warnings |-> warnings ]

Modes == {"dry_run", "commit"}

\* lines 193-206, and for dry_run the return: load the days, collect the
\* warnings, evaluate the rules; an exception of the loader or the engine
\* leaves the call
OrchStart ==
    /\ pc \in {"idle", "returned"}
    /\ req.path = "orchestrator"
    /\ nruns < MaxRuns
    /\ \E ctx \in {load_days_for_apply(req.start, req.days, req.prefer, req.data_use)} :
        \E engine_res \in {IF ctx.raised THEN Raise
                           ELSE evaluate_rules(req.sector_id, ctx.val.days, req.rules)} :
        \E mode \in Modes, t \in now..MaxTime :
        LET r == [req EXCEPT !.mode = mode]
        IN  /\ req' = r
            /\ now' = t
            /\ nruns' = nruns + 1
            /\ prev' = Summary(report)
            /\ issue_before' = issue
            /\ committed' = <<>>
            /\ skipped' = <<>>
            /\ idx' = 1
            /\ IF ctx.raised
               THEN /\ report' = ErrorReport(r, t, ctx.code, 0)
                    /\ planned' = <<>>
                    /\ txn' = NoTxn
                    /\ pc' = "returned"
               ELSE IF engine_res.raised
               THEN /\ report' = ErrorReport(r, t, 500, 0)
                    /\ planned' = <<>>
                    /\ txn' = NoTxn
                    /\ pc' = "returned"
               ELSE LET running == OrchReport(r, t, ctx.val, engine_res.val.days,
                                              MissingWarnings(ctx.val.days),
                                              engine_res.val.planned, <<>>, <<>>)
                    IN  /\ planned' = engine_res.val.planned
                        /\ IF Persists(mode)
                           THEN /\ report' = [running EXCEPT !.status = "running"]
                                /\ txn' = [NoTxn EXCEPT !.now = t]
                                /\ pc' = "loop"
                           ELSE /\ report' = running
                                /\ txn' = NoTxn
                                /\ pc' = "returned"
    /\ UNCHANGED <<dbvars, fnvars>>

InLoop(path) == pc = "loop" /\ req.path = path /\ idx <= Len(planned)

\* faulty variant: a loop that forgets the actions the dedupe check rejects
OrchStep_drop_skip ==
    /\ InLoop("orchestrator")
    /\ LET act == planned[idx]
           row == _create_issue(req.sector_id, act.target.date, act.title,
                                act.description, act.severity, req.performed_by)
       IN  IF _dedupe_hit(req.sector_id, act.target.date, act.title, req.dedupe_minutes)
           THEN UNCHANGED <<txn, committed, skipped>>
           ELSE /\ txn' = [txn EXCEPT !.issue = @ \cup {row}]
                /\ committed' = Append(committed, [type |-> "create_issue",
                                           issue_id |-> row.id, date |-> act.target.date,
                                           title |-> act.title])
                /\ UNCHANGED skipped
    /\ idx' = idx + 1
    /\ UNCHANGED <<dbvars, fnvars, now, req, pc, planned, report, prev, issue_before, nruns>>

\* one pass of `for act in planned` (lines 210-224): the dedupe check, then
\* either the skip or the insert
OrchStep ==
    /\ InLoop("orchestrator")
    /\ LET act == planned[idx]
           tdate == act.target.date
           title == act.title
       IN  IF act.type # "create_issue"
           THEN UNCHANGED <<txn, committed, skipped>>
           ELSE IF _dedupe_hit(req.sector_id, tdate, title, req.dedupe_minutes)
           THEN /\ skipped' = Append(skipped, [type |-> "create_issue", reason |-> "dedupe_hit",
                                               title |-> title, date |-> tdate])
                /\ UNCHANGED <<txn, committed>>
           ELSE LET row == _create_issue(req.sector_id, tdate, title, act.description,
                                         act.severity, req.performed_by)
                IN  /\ txn' = [txn EXCEPT !.issue = @ \cup {row}]
                    /\ committed' = Append(committed, [type |-> "create_issue",
                                               issue_id |-> row.id, date |-> tdate,
                                               title |-> title])
                    /\ UNCHANGED skipped
    /\ idx' = idx + 1
    /\ UNCHANGED <<dbvars, fnvars, now, req, pc, planned, report, prev, issue_before, nruns>>

\* the database refuses a statement of the pass for the action at idx (the
\* dedupe query or the insert): the exception leaves the call before
\* db.commit(), the session closes and the transaction is rolled back
OrchPersistFails ==
    /\ InLoop("orchestrator")
    /\ issue' = Rollback(issue, txn.issue)
    /\ txn' = NoTxn
    /\ report' = ErrorReport(req, txn.now, 500, Cardinality(txn.issue))
    /\ pc' = "returned"
    /\ planned' = <<>> /\ committed' = <<>> /\ skipped' = <<>> /\ idx' = 1
    /\ UNCHANGED <<db, rules_run, change_log, othervars, fnvars, now, req, prev,
                   issue_before, nruns>>

\* line 226 and the return: db.commit() after the last action
OrchCommit ==
    /\ pc = "loop" /\ req.path = "orchestrator" /\ idx > Len(planned)
    /\ issue' = issue \cup txn.issue
    /\ rules_run' = rules_run \cup txn.rules_run
    /\ change_log' = change_log \cup txn.change_log
    /\ txn' = NoTxn
    /\ report' = [report EXCEPT !.status = "ok",
                                !.stats.actions_committed = Len(committed),
                                !.actions.committed = committed,
                                !.actions.skipped = skipped]
    /\ pc' = "returned"
    /\ UNCHANGED <<db, othervars, fnvars, now, req, planned, committed, skipped, idx,
                   prev, issue_before, nruns>>

----------------------------------------------------------------------------
(* api/v1/rules.py: what POST /sectors/{sector_id}/apply-rules computes *)

\* the width of shorten(title or "", 200)
TitleWidth == 200

Float(v) == [t |-> "float", n |-> v.n, d |-> v.d]

KeyError == [raised |-> TRUE, exc |-> "KeyError"]
ValueError == [raised |-> TRUE, exc |-> "ValueError"]

NotSpace(w) == w # " "

\* len(" ".join(words))
RECURSIVE JoinLen(_)
JoinLen(words) ==
    IF words = <<>> THEN 0
    ELSE Len(words[1]) + (IF Len(words) > 1 THEN 1 ELSE 0) + JoinLen(Tail(words))

\* " ".join(words)
RECURSIVE Join(_)
Join(words) ==
    IF Len(words) <= 1 THEN words
    ELSE <<words[1], " ">> \o Join(Tail(words))

\* textwrap.shorten(text, width) for words without hyphens: whitespace is
\* collapsed; a text that does not fit keeps the longest run of leading
\* words that leaves room for the placeholder " [...]"
shorten(text, width) ==
    LET words == SelectSeq(text, NotSpace)
        fits == {k \in 1..Len(words) : JoinLen(SubSeq(words, 1, k)) + 6 <= width}
    IN  IF JoinLen(words) <= width THEN Join(words)
        ELSE IF fits = {} THEN <<"[...]">>
        ELSE Join(SubSeq(words, 1, CHOOSE k \in fits : \A j \in fits : j <= k))
             \o <<" ", "[...]">>

\* tmpl.format_map(ctx): one pass over the words of tmpl, a field being the
\* three words "{", key, "}"; a key ctx lacks is a KeyError, a brace that
\* opens or closes no field a ValueError
RECURSIVE format_map(_, _)
format_map(tmpl, ctx) ==
    IF tmpl = <<>> THEN Ret(<<>>)
    ELSE IF tmpl[1] = "{"
    THEN IF Len(tmpl) < 3 \/ tmpl[3] # "}" THEN ValueError
         ELSE IF tmpl[2] \notin DOMAIN ctx THEN KeyError
         ELSE LET rest == format_map(SubSeq(tmpl, 4, Len(tmpl)), ctx)
              IN  IF rest.raised THEN rest
                  ELSE Ret(PyStr(ctx[tmpl[2]]) \o rest.val)
    ELSE IF tmpl[1] = "}" THEN ValueError
    ELSE LET rest == format_map(Tail(tmpl), ctx)
         IN  IF rest.raised THEN rest ELSE Ret(<<tmpl[1]>> \o rest.val)

\* date.fromisoformat of a string isoformat() produced
fromisoformat(s) == CHOOSE d \in {Date(i) : i \in 1..31} : PyStr(d) = s.s

_cmp(op, actual, threshold) ==
    IF actual = None THEN FALSE
    ELSE IF op \in CompareOps THEN NumCmp(op, actual, threshold)
    ELSE FALSE

_extract_metric_value(metric, row) ==
    LET v == Get(row, metric, None)
    IN  IF v = None THEN None
        ELSE IF float(v).raised THEN None
        ELSE Float(float(v).val)

Severities == {"low", "medium", "high", "critical"}

\* the rule passes the validation of model RuleIn
RuleIn(rule) ==
    /\ "id" \in DOMAIN rule /\ rule["id"].t = "str" /\ rule["id"].s # <<>>
    /\ Get(rule, "severity", "medium") \in Severities
    /\ Get(rule, "scope", "per_day") = "per_day"
    /\ "metric" \in DOMAIN rule /\ rule["metric"] \in _METRICS
    /\ "op" \in DOMAIN rule /\ rule["op"] \in CompareOps
    /\ "value" \in DOMAIN rule /\ ~float(rule["value"]).raised

\* `rule.name or rule.id`
NameOrId(rule) ==
    IF Get(rule, "name", None) # None /\ rule["name"].s # <<>> THEN rule["name"]
    ELSE rule["id"]

\* ValuePoint of the date (row is {} when the date has no snapshot)
ValuePoint(d, row) ==
    [ target_date |-> Date(d),
      weather_code |-> Get(row, "weather_code", None),
      temp_min_c |-> Get(row, "temp_min_c", None),
      temp_max_c |-> Get(row, "temp_max_c", None),
      precipitation_mm |-> Get(row, "precipitation_mm", None),
      wind_kmh |-> Get(row, "wind_kmh", None),
      forecast_horizon_days |->
          IF Get(row, "forecast_horizon_days", None) # None
          THEN row["forecast_horizon_days"] ELSE Num(0) ]

\* one pass of `for rule in payload.rules` (lines 312-368): the match and
\* the planned action it appends, or the exception a template raises
EndpointRuleOnDay(rule, d, row, sector_id) ==
    LET values == ValuePoint(d, row)
        when_horizon_max == Get(rule, "when_horizon_max", None)
        actual == _extract_metric_value(rule["metric"], row)
        threshold == Float(float(rule["value"]).val)
        iso == Str(PyStr(Date(d)))
        reason == Str(<<rule["metric"], " ", rule["op"], " ">> \o PyStr(threshold)
                      \o <<" ", "(actual=">> \o PyStr(actual) \o <<")">>)
        description_context ==
            [ target_date |-> iso, metric |-> Str(<<rule["metric"]>>),
              op |-> Str(<<rule["op"]>>), threshold |-> threshold, actual |-> actual,
              weather_code |-> Get(row, "weather_code", None),
              temp_min_c |-> Get(row, "temp_min_c", None),
              temp_max_c |-> Get(row, "temp_max_c", None),
              precipitation_mm |-> Get(row, "precipitation_mm", None),
              wind_kmh |-> Get(row, "wind_kmh", None) ]
        suggest == Get(rule, "suggest", EmptyDict)
        title_tmpl == Get(suggest, "title", Str(<<>>))
        desc_tmpl == Get(suggest, "description_tmpl", Str(<<>>))
        title == IF title_tmpl.s # <<>> THEN format_map(title_tmpl.s, description_context)
                 ELSE Ret(NameOrId(rule).s \o <<" ", "em", " ">> \o iso.s)
        described == IF desc_tmpl.s # <<>> THEN format_map(desc_tmpl.s, description_context)
                     ELSE Ret(reason.s)
        description == IF described = KeyError THEN Ret(reason.s) ELSE described
        dedupe_key == format_map(DefaultDedupeTmpl.s,
                          [sector_id |-> sector_id, target_date |-> iso,
                           name |-> NameOrId(rule)])
        none == Ret([matches |-> <<>>, actions |-> <<>>])
    IN  IF when_horizon_max # None /\ NumLt(when_horizon_max, values.forecast_horizon_days)
        THEN none
        ELSE IF ~_cmp(rule["op"], actual, threshold) THEN none
        ELSE IF title.raised THEN title
        ELSE IF description.raised THEN description
        ELSE IF dedupe_key.raised THEN dedupe_key
        ELSE Ret([ matches |-> << [ rule_id |-> rule["id"], name |-> NameOrId(rule),
                                    severity |-> Get(rule, "severity", "medium"),
                                    metric |-> rule["metric"], op |-> rule["op"],
                                    threshold |-> threshold, actual |-> actual,
                                    reason |-> reason ] >>,
                   actions |-> << [ type |-> "issue.create", sector_id |-> sector_id,
                                    target_date |-> iso, rule_id |-> rule["id"],
                                    severity |-> Get(rule, "severity", "medium"),
                                    title |-> Str(title.val),
                                    description |-> Str(description.val),
                                    dedupe_key |-> Str(dedupe_key.val) ] >> ])

RECURSIVE EndpointRulesOnDay(_, _, _, _, _)
EndpointRulesOnDay(rules, k, d, row, sector_id) ==
    IF k > Len(rules) THEN Ret([matches |-> <<>>, actions |-> <<>>])
    ELSE LET one == EndpointRuleOnDay(rules[k], d, row, sector_id)
         IN  IF one.raised THEN one
             ELSE LET rest == EndpointRulesOnDay(rules, k + 1, d, row, sector_id)
                  IN  IF rest.raised THEN rest
                      ELSE Ret([matches |-> one.val.matches \o rest.val.matches,
                                actions |-> one.val.actions \o rest.val.actions])

\* the row of snap_by_day for the date, {} when there is none
SnapRow(batch_id, d) ==
    IF SnapshotAt(batch_id, d) = {} THEN EmptyDict
    ELSE (CHOOSE r \in SnapshotAt(batch_id, d) : TRUE).row

\* `for i in range(days)` (lines 297-371) from date d on: day_reports and
\* planned_actions
RECURSIVE EndpointDays(_, _, _, _, _)
EndpointDays(rules, batch_id, d, end, sector_id) ==
    IF d > end THEN Ret([days |-> <<>>, planned |-> <<>>])
    ELSE LET row == SnapRow(batch_id, d)
             today == EndpointRulesOnDay(rules, 1, d, row, sector_id)
         IN  IF today.raised THEN today
             ELSE LET rest == EndpointDays(rules, batch_id, d + 1, end, sector_id)
                  IN  IF rest.raised THEN rest
                      ELSE Ret([days |-> << [ target_date |-> Date(d),
                                              values |-> ValuePoint(d, row),
                                              matches |-> today.val.matches ] >>
                                            \o rest.val.days,
                                planned |-> today.val.actions \o rest.val.planned])

\* lines 267-371: the request validation, the sector, the batch, the
\* snapshots and the evaluation; what they raise is an HTTPException
EndpointEvaluate(r) ==
    LET window_start == r.start
        window_end == r.start + r.days - 1
        covering == Latest(Covering(window_start, window_end))
        batch == IF covering # None THEN covering
                 ELSE IF r.prefer = "partial"
                      THEN Latest(Intersecting(window_start, window_end))
                 ELSE None
    IN  IF \E k \in 1..Len(r.rules) : ~RuleIn(r.rules[k]) THEN HttpError(422)
        ELSE IF ~db.sector THEN HttpError(404)
        ELSE IF batch = None THEN HttpError(404)
        ELSE IF r.prefer = "exact"
                /\ Len(_load_days_from_snapshots(batch.id, window_start, window_end)) # r.days
        THEN HttpError(404)
        ELSE LET ev == EndpointDays(r.rules, batch.id, window_start, window_end, r.sector_id)
             IN  IF ev.raised THEN HttpError(500)
                 ELSE Ret([ batch |-> batch, window_start |-> window_start,
                            window_end |-> window_end, days |-> ev.val.days,
                            planned |-> ev.val.planned ])

----------------------------------------------------------------------------
(* api/v1/rules.py: apply_rules_endpoint *)

\* _recent_similar_issue_exists: the query of _dedupe_hit
_recent_similar_issue_exists(sector_id, issue_date, title, dedupe_minutes) ==
    \E r \in Visible :
        /\ r.sector_id = sector_id
        /\ r.issue_date = issue_date
        /\ r.title = title
        /\ r.created_at >= txn.now - dedupe_minutes

\* the row INSERT INTO issue ... RETURNING * of _insert_issue_with_weather
\* gives back
_insert_issue_with_weather(sector_id, issue_date, title, description, severity, created_by, weather_source, snap_row) ==
    [ id |-> <<nruns, idx>>, sector_id |-> sector_id, issue_date |-> issue_date,
      title |-> Str(shorten(title.s, TitleWidth)), description |-> description,
      severity |-> severity, status |-> "open", created_by |-> created_by,
      created_at |-> txn.now, weather_source |-> weather_source,
      weather_code |-> Get(snap_row, "weather_code", None),
      temp_min_c |-> Get(snap_row, "temp_min_c", None),
      temp_max_c |-> Get(snap_row, "temp_max_c", None),
      precipitation_mm |-> Get(snap_row, "precipitation_mm", None),
      wind_kmh |-> Get(snap_row, "wind_kmh", None) ]

\* the change_log row _insert_issue_with_weather writes for new_issue
ChangeLogRow(new_issue, description, created_by) ==
    [ entity_type |-> "issue", entity_id |-> new_issue.id, action |-> "created",
      new_value |-> Str(new_issue.title.s \o <<" ", "(", new_issue.severity, ")">>),
      reason |-> description, changed_by |-> created_by ]

\* `payload.requested_by or "rules-engine"`
RequestedBy(r) == IF r.requested_by = None THEN "rules-engine" ELSE r.requested_by

\* the rules_run row of lines 423-435 and 439-450; `days` holds the last
\* date of the window since line 298
RulesRunRow(r, ws, we, days, created_count) ==
    [ id |-> nruns, sector_id |-> r.sector_id, mode |-> r.mode, executed_at |-> txn.now,
      window_start |-> ws, window_end |-> we, days_analyzed |-> days,
      rules_checked |-> Len(r.rules), issues_created |-> created_count,
      status |-> "ok" ]

\* ApplyRulesOut (lines 453-474)
EndpointReport(r, t, ev, co, sk) ==
    [ status |-> "ok", path |-> "endpoint", mode |-> r.mode, t |-> t,
      context |-> [ sector_id |-> r.sector_id, window_start |-> ev.window_start,
                    window_end |-> ev.window_end, prefer |-> r.prefer, mode |-> r.mode,
                    batch_id |-> ev.batch.id, source |-> Get(ev.batch, "source", None) ],
      stats |-> [ days |-> Date(ev.window_end), matches |-> CountMatches(ev.days) ],
      days |-> ev.days,
      actions |-> [planned |-> ev.planned, committed |-> co, skipped |-> sk],
      warnings |-> <<>> ]

\* the request arrives: validation and lines 267-373
EndpointStart ==
    /\ pc \in {"idle", "returned"}
    /\ req.path = "endpoint"
    /\ nruns < MaxRuns
    /\ \E ev \in {EndpointEvaluate(req)} :
        \E mode \in Modes, t \in now..MaxTime :
        LET r == [req EXCEPT !.mode = mode]
        IN  /\ req' = r
            /\ now' = t
            /\ nruns' = nruns + 1
            /\ prev' = Summary(report)
            /\ issue_before' = issue
            /\ committed' = <<>>
            /\ skipped' = <<>>
            /\ idx' = 1
            /\ IF ev.raised
               THEN /\ report' = ErrorReport(r, t, ev.code, 0)
                    /\ planned' = <<>>
                    /\ txn' = NoTxn
                    /\ pc' = "returned"
               ELSE /\ report' = [EndpointReport(r, t, ev.val, <<>>, <<>>)
                                     EXCEPT !.status = "running"]
                    /\ planned' = ev.val.planned
                    /\ txn' = [NoTxn EXCEPT !.now = t]
                    /\ pc' = "loop"
    /\ UNCHANGED <<dbvars, fnvars>>

\* one pass of `for act in planned_actions` (lines 378-421)
EndpointStep ==
    /\ InLoop("endpoint")
    /\ Persists(req.mode)
    /\ LET act == planned[idx]
           target_d == fromisoformat(act.target_date)
           title == act.title
       IN  IF _recent_similar_issue_exists(req.sector_id, target_d, title, req.dedupe_minutes)
           THEN /\ skipped' = Append(skipped,
                        [ type |-> "issue.create", reason |-> "deduped_recent",
                          sector_id |-> req.sector_id, target_date |-> act.target_date,
                          title |-> title, rule_id |-> act.rule_id ])
                /\ UNCHANGED <<txn, committed>>
           ELSE LET new_issue == _insert_issue_with_weather(req.sector_id, target_d, title,
                                     act.description, act.severity, RequestedBy(req),
                                     report.context.source,
                                     SnapRow(report.context.batch_id, target_d.n))
                IN  /\ txn' = [txn EXCEPT
                                 !.issue = @ \cup {new_issue},
                                 !.change_log = @ \cup {ChangeLogRow(new_issue,
                                                    act.description, RequestedBy(req))}]
                    /\ committed' = Append(committed,
                            [ type |-> "issue.create", sector_id |-> req.sector_id,
                              issue_id |-> new_issue.id, target_date |-> act.target_date,
                              rule_id |-> act.rule_id, title |-> title ])
                    /\ UNCHANGED skipped
    /\ idx' = idx + 1
    /\ UNCHANGED <<dbvars, fnvars, now, req, pc, planned, report, prev, issue_before, nruns>>

\* the loop is over, or the mode is dry_run
AtAudit == pc = "loop" /\ req.path = "endpoint"
           /\ (~Persists(req.mode) \/ idx > Len(planned))

\* a statement of the transaction fails (the dedupe query or an insert of
\* the pass for the action at idx, or the insert into rules_run, whose
\* days_analyzed is handed a date): the handlers of lines 476-483 turn it
\* into a 500 and nothing is committed
EndpointPersistFails ==
    /\ pc = "loop" /\ req.path = "endpoint"
    /\ issue' = Rollback(issue, txn.issue)
    /\ txn' = NoTxn
    /\ report' = ErrorReport(req, txn.now, 500, Cardinality(txn.issue))
    /\ pc' = "returned"
    /\ planned' = <<>> /\ committed' = <<>> /\ skipped' = <<>> /\ idx' = 1
    /\ UNCHANGED <<db, rules_run, change_log, othervars, fnvars, now, req, prev,
                   issue_before, nruns>>

\* the insert into rules_run and db.commit() (lines 423-436, 438-451),
\* then the response
EndpointFinish ==
    /\ AtAudit
    /\ issue' = issue \cup txn.issue
    /\ change_log' = change_log \cup txn.change_log
    /\ rules_run' = rules_run \cup txn.rules_run
                    \cup {RulesRunRow(req, report.context.window_start,
                                      report.context.window_end, report.stats.days,
                                      IF Persists(req.mode) THEN Len(committed) ELSE 0)}
    /\ txn' = NoTxn
    /\ report' = [report EXCEPT !.status = "ok",
                                !.actions.committed = committed,
                                !.actions.skipped = skipped]
    /\ pc' = "returned"
    /\ UNCHANGED <<db, othervars, fnvars, now, req, planned, committed, skipped, idx,
                   prev, issue_before, nruns>>

----------------------------------------------------------------------------
(* The requests and databases of the apply-rules model *)

Sector == Str(<<"S1">>)
Project == Str(<<"P1">>)
RainTitle == Str(<<"Chuva", " ", " ", "forte">>)

Precip(op, value) == [metric |-> "precipitation_mm", op |-> op, value |-> Num(value)]

\* r1 and r4 share name and title, r1 and r2 share the name (so the default
\* dedupe key) but not the title, r5 is a rolling rule
RuleCatalogue ==
    { [id |-> Str(<<"r1">>), name |-> Str(<<"Rain">>)] @@ Precip(">", 10),
      [id |-> Str(<<"r2">>), name |-> Str(<<"Rain">>), suggest |-> [title |-> RainTitle]]
          @@ Precip(">=", 5),
      [id |-> Str(<<"r4">>), name |-> Str(<<"Rain">>), severity |-> "high"] @@ Precip(">=", 5),
      [id |-> Str(<<"r5">>), name |-> Str(<<"Wet">>), scope |-> "rolling",
       window_days |-> 2, aggregate |-> "sum"] @@ Precip(">=", 20) }

\* lists of up to MaxRules rules with ids of their own
RuleLists ==
    { rs \in UNION {[1..n -> RuleCatalogue] : n \in 1..MaxRules} :
          \A j, k \in 1..Len(rs) : j # k => rs[j]["id"] # rs[k]["id"] }

Batch1 == [id |-> "b1", window_start |-> 1, window_end |-> NDays, finished_at |-> 0]

\* per date of the window: no snapshot, or 15 mm
SnapshotTables ==
    { { [batch_id |-> "b1", row |-> DayRow(d, Num(15), Num(0))] : d \in ds } :
          ds \in SUBSET (1..NDays) }

\* the sector of a project with a batch, the sector without a batch (with
\* and without a project), and no sector at all
Databases ==
    { [ sector |-> TRUE, project_id |-> Project, weather_batch |-> {Batch1},
        weather_snapshot |-> snaps, weather_baseline |-> {} ] :
          snaps \in SnapshotTables }
    \cup
    { [ sector |-> TRUE, project_id |-> p, weather_batch |-> {}, weather_snapshot |-> {},
        weather_baseline |-> {} ] : p \in {Project, None} }
    \cup
    { [ sector |-> FALSE, project_id |-> None, weather_batch |-> {},
        weather_snapshot |-> {}, weather_baseline |-> {} ] }

Requests ==
    { [ path |-> "orchestrator", sector_id |-> Sector, start |-> 1, days |-> NDays,
        prefer |-> "latest", data_use |-> du, rules |-> rs, mode |-> "dry_run",
        dedupe_minutes |-> DedupeMinutes, performed_by |-> "system" ] :
          du \in {"snapshots", "auto"}, rs \in RuleLists }
    \cup
    { [ path |-> "endpoint", sector_id |-> Sector, start |-> 1, days |-> NDays,
        prefer |-> "latest", rules |-> rs, mode |-> "dry_run",
        dedupe_minutes |-> DedupeMinutes, requested_by |-> None ] : rs \in RuleLists }

IdleFn == call = [fn |-> "none"] /\ ret = Pending

Init ==
    /\ db \in Databases
    /\ issue = {} /\ rules_run = {} /\ change_log = {}
    /\ now = 0
    /\ req \in Requests
    /\ pc = "idle"
    /\ txn = NoTxn
    /\ planned = <<>> /\ committed = <<>> /\ skipped = <<>> /\ idx = 1
    /\ report = NoReport /\ prev = NoReport
    /\ issue_before = {}
    /\ nruns = 0
    /\ IdleOthers
    /\ IdleFn

Next ==
    \/ OrchStart
    \/ OrchStep
    \/ OrchPersistFails
    \/ OrchCommit
    \/ EndpointStart
    \/ EndpointStep
    \/ EndpointPersistFails
    \/ EndpointFinish

Spec == Init /\ [][Next]_vars

----------------------------------------------------------------------------
(* Harness for the pure functions: SpecFn makes one call of cmp_value,     *)
(* agg_block or evaluate_rules on inputs drawn from the sets below.        *)

\* bounds
MaxVals == 3        \* longest list handed to agg_block
FnDays == 3         \* days handed to evaluate_rules
MaxWindow == 2      \* largest window_days of a rolling rule

CmpOps == CompareOps \cup {"in", "between", "~="}

CmpActuals ==
    { None, Num(0), Num(3), Num(15), Frac(7, 2),
      Str(<<"3">>), Str(<<"x">>), List(<<Num(3)>>) }

CmpThresholds ==
    { None, Num(3), Num(10),
      Str(<<"5">>), Str(<<"x">>), Str(<<"1", "5">>), Str(<<"x", "y">>),
      List(<<>>), List(<<Num(3), Num(15)>>), List(<<Num(1), Num(5)>>),
      List(<<Str(<<"1">>), Str(<<"5">>)>>), List(<<None, Num(5)>>),
      List(<<Num(1), Num(3), Num(5)>>) }

AggKinds == {"sum", "avg", "max", "min", "count", "median"}
AggValues == {None, Num(0), Num(5), Num(6), Str(<<"5">>)}
AggLists == UNION {[1..n -> AggValues] : n \in 0..MaxVals}

\* a metric of a harness day: the key missing, None, or a number
Missing == [t |-> "missing"]
FnMetricValues == {Missing, None, Num(5), Num(6)}

FnDay(i, v, extra) ==
    LET base == IF v = Missing THEN [target_date |-> Date(i)]
                ELSE [target_date |-> Date(i), precipitation_mm |-> v]
    IN  IF extra THEN base @@ [humidity |-> Num(90)] ELSE base

FnDaySeqs ==
    { [i \in 1..FnDays |-> FnDay(i, f[i], extra)] :
          f \in [1..FnDays -> FnMetricValues], extra \in BOOLEAN }

FnMetrics == {"precipitation_mm", "wind_kmh", "humidity"}

FnPerDayRules ==
    { [id |-> Str(<<"r1">>), name |-> Str(<<"Rain">>), metric |-> m, op |-> o, value |-> v] :
          m \in FnMetrics, o \in CmpOps,
          v \in {Num(5), Num(100), List(<<None, Num(5)>>), List(<<Num(0), Num(100)>>)} }

FnRollingRules ==
    { [id |-> Str(<<"r2">>), name |-> Str(<<"Wet">>), scope |-> "rolling", metric |-> m,
       window_days |-> w, aggregate |-> a, op |-> o, value |-> v] :
          m \in {"precipitation_mm", "wind_kmh"}, w \in 1..MaxWindow, a \in AggKinds,
          o \in {"<", "<=", ">=", "=="}, v \in {Num(0), Num(10)} }

FnSector == Str(<<"S1">>)

IdleRun ==
    /\ db = [project_id |-> None, weather_batch |-> {}, weather_snapshot |-> {},
             weather_baseline |-> {}]
    /\ issue = {} /\ rules_run = {} /\ change_log = {}
    /\ now = 0
    /\ req = [path |-> "none"]
    /\ pc = "idle"
    /\ txn = NoTxn
    /\ planned = <<>> /\ committed = <<>> /\ skipped = <<>> /\ idx = 1
    /\ report = NoReport /\ prev = NoReport
    /\ issue_before = {}
    /\ nruns = 0
    /\ IdleOthers

InitFn ==
    /\ IdleRun
    /\ \/ call \in [fn : {"cmp_value"}, op : CmpOps, actual : CmpActuals,
                    value : CmpThresholds]
       \/ call \in [fn : {"agg_block"}, vals : AggLists, agg : AggKinds]
       \/ call \in [fn : {"evaluate_rules"}, days : FnDaySeqs,
                    rule : FnPerDayRules \cup FnRollingRules]
    /\ ret = Pending

CallCmp ==
    /\ call.fn = "cmp_value"
    /\ ret = Pending
    /\ ret' = cmp_value(call.op, call.actual, call.value)
    /\ UNCHANGED <<call, dbvars, runvars>>

CallAgg ==
    /\ call.fn = "agg_block"
    /\ ret = Pending
    /\ ret' = agg_block(call.vals, call.agg)
    /\ UNCHANGED <<call, dbvars, runvars>>

CallEvaluate ==
    /\ call.fn = "evaluate_rules"
    /\ ret = Pending
    /\ ret' = evaluate_rules(FnSector, call.days, <<call.rule>>)
    /\ UNCHANGED <<call, dbvars, runvars>>

NextFn == CallCmp \/ CallAgg \/ CallEvaluate

SpecFn == InitFn /\ [][NextFn]_vars

Returned(fn) == call.fn = fn /\ ret # Pending

----------------------------------------------------------------------------
(* Harness for the engine: SpecEng makes one call of eval_rule_rolling, of  *)
(* evaluate_rules on a rule set, or of render_tmpl.                         *)

\* bounds
EngDays == 3        \* days handed to the engine
EngWindow == 4      \* largest window_days of a rolling rule
EngHorizon == 2     \* largest forecast_horizon_days and when_horizon_max
EngRules == 2       \* rules of a rule set

\* a day as the loaders hand it over: the record of a date without data
\* (only the date), or a snapshot of p mm captured h days ahead
EngKinds ==
    { Missing, [p |-> 0, h |-> 0], [p |-> 5, h |-> 0], [p |-> 6, h |-> 0],
      [p |-> 5, h |-> EngHorizon] }

EngDay(i, kind) ==
    IF kind = Missing THEN [target_date |-> Date(i)]
    ELSE DayRow(i, Num(kind.p), Num(kind.h))

EngDaySeqs == { [i \in 1..EngDays |-> EngDay(i, f[i])] : f \in [1..EngDays -> EngKinds] }

\* rule with when_horizon_max = wh, or without the key when wh is None
WithHorizon(rule, wh) ==
    IF wh = None THEN rule ELSE [when_horizon_max |-> wh] @@ rule

Rolling(w, a) ==
    [id |-> Str(<<"r5">>), name |-> Str(<<"Sum">>), scope |-> "rolling",
     window_days |-> w, aggregate |-> a]

\* the rules of the eval_rule_rolling calls
EngWindowRules ==
    { WithHorizon(Rolling(w, "sum") @@ Precip(">=", 10), wh) :
          w \in 1..EngWindow, wh \in {None, Num(0), Num(EngHorizon)} }

\* the rolling rules evaluate_rules is called on, one at a time
EngRollingRules ==
    { WithHorizon(Rolling(w, a) @@ Precip(o, 10), wh) :
          w \in 1..EngWindow, a \in {"sum", "avg", "count"}, o \in {">=", "<"},
          wh \in {None, Num(1)} }

TitleTmpl == Str(<<"Chuva", " ", "{", "precipitation_mm", "}">>)
KeyTmpl == Str(<<"{", "name", "}", "@", "{", "target_date", "}">>)

\* r1 has a title template, r2 and r3 neither a name nor a title, r4 a name
\* and a dedupe key template of its own, r6 is a rolling rule
EngCatalogue ==
    { [id |-> Str(<<"r1">>), name |-> Str(<<"Rain">>), suggest |-> [title |-> TitleTmpl]]
          @@ Precip(">=", 5),
      [id |-> Str(<<"r2">>)] @@ Precip(">=", 5),
      [id |-> Str(<<"r3">>)] @@ Precip(">=", 6),
      [id |-> Str(<<"r4">>), name |-> Str(<<"Wet">>), dedupe_key_tmpl |-> KeyTmpl]
          @@ Precip("<", 6),
      [id |-> Str(<<"r6">>), name |-> Str(<<"Sum">>), scope |-> "rolling",
       window_days |-> 2, aggregate |-> "sum"] @@ Precip(">=", 10) }

EngRuleLists ==
    { <<r>> : r \in EngRollingRules }
    \cup
    { rs \in UNION {[1..n -> EngCatalogue] : n \in 1..EngRules} :
          \A j, k \in 1..Len(rs) : j # k => rs[j]["id"] # rs[k]["id"] }

\* the rules evaluated under two values of when_horizon_max
EngHorizonRules ==
    { [id |-> Str(<<"r1">>), name |-> Str(<<"Rain">>)] @@ Precip(">=", 5),
      [id |-> Str(<<"r1">>), name |-> Str(<<"Rain">>)] @@ Precip("<", 6),
      Rolling(1, "sum") @@ Precip(">=", 5),
      Rolling(2, "sum") @@ Precip(">=", 5),
      Rolling(2, "max") @@ Precip("<", 6) }

\* lo <= hi, or hi unset
EngHorizonPairs ==
    { pr \in [1..2 -> {Num(h) : h \in 0..EngHorizon}] : pr[1].n <= pr[2].n }
    \cup { <<Num(a), None>> : a \in 0..EngHorizon }

EngTemplates ==
    { <<"{", "a", "}", " and ", "{", "b", "}">>,
      <<"{", "missing", "}">>,
      <<"{", "a", "}", "{", "a", "}">>,
      <<"{", "a", "}", ":", "{", "missing", "}">>,
      <<"plain">> }

EngValues == { Str(<<"1">>), Str(<<"2">>), Num(2), None, Str(<<"{", "b", "}">>) }

\* ctx.items() of the contexts: no key, a, a then b, b then a
EngContexts ==
    { <<>> }
    \cup { << <<"a", v>> >> : v \in EngValues }
    \cup { << <<"a", v>>, <<"b", w>> >> : v \in EngValues, w \in EngValues }
    \cup { << <<"b", w>>, <<"a", v>> >> : v \in EngValues, w \in EngValues }

InitEng ==
    /\ IdleRun
    /\ \/ call \in [fn : {"eval_rule_rolling"}, days : EngDaySeqs, rule : EngWindowRules]
       \/ call \in [fn : {"evaluate_rules"}, days : EngDaySeqs, rules : EngRuleLists]
       \/ call \in [fn : {"render_tmpl"}, tmpl : EngTemplates, ctx : EngContexts]
    /\ ret = Pending

\* eval_rule_rolling(rule, days): its matches, and the windows its loop
\* went on with
CallRolling ==
    /\ call.fn = "eval_rule_rolling"
    /\ ret = Pending
    /\ LET r == eval_rule_rolling(call.rule, call.days)
       IN  ret' = IF r.raised THEN Raise
                  ELSE Ret([ windows |-> WindowsFrom(call.rule, call.days, 0),
                             matches |-> r.val ])
    /\ UNCHANGED <<call, dbvars, runvars>>

CallEvaluateRules ==
    /\ call.fn = "evaluate_rules"
    /\ ret = Pending
    /\ ret' = evaluate_rules(FnSector, call.days, call.rules)
    /\ UNCHANGED <<call, dbvars, runvars>>

\* evaluate_rules on the same days and rule, with when_horizon_max at the
\* lower value and at the higher one (or unset)
CallHorizons ==
    /\ call.fn = "when_horizon_max"
    /\ ret = Pending
    /\ ret' = [ lo |-> evaluate_rules(FnSector, call.days,
                                      <<WithHorizon(call.rule, call.pair[1])>>),
                hi |-> evaluate_rules(FnSector, call.days,
                                      <<WithHorizon(call.rule, call.pair[2])>>) ]
    /\ UNCHANGED <<call, dbvars, runvars>>

CallRender ==
    /\ call.fn = "render_tmpl"
    /\ ret = Pending
    /\ ret' = Ret(render_tmpl(call.tmpl, call.ctx))
    /\ UNCHANGED <<call, dbvars, runvars>>

NextEng == CallRolling \/ CallEvaluateRules \/ CallRender

SpecEng == InitEng /\ [][NextEng]_vars

\* SpecHorizon makes one call of evaluate_rules under two values of
\* when_horizon_max
InitHorizon ==
    /\ IdleRun
    /\ call \in [fn : {"when_horizon_max"}, days : EngDaySeqs, rule : EngHorizonRules,
                 pair : EngHorizonPairs]
    /\ ret = Pending

NextHorizon == CallHorizons

SpecHorizon == InitHorizon /\ [][NextHorizon]_vars

\* SpecBad calls evaluate_rules on days whose precipitation is a number, a
\* text that is no number, None, or missing with the rest of the record
BadDaySeqs ==
    { [i \in 1..EngDays |-> IF f[i] = Missing THEN [target_date |-> Date(i)]
                            ELSE DayRow(i, f[i], Num(0))] :
          f \in [1..EngDays -> {Num(12), Str(<<"x">>), None, Missing}] }

BadRuleLists ==
    { << [id |-> Str(<<"r1">>), name |-> Str(<<"Rain">>)] @@ Precip(">=", 10) >> }
    \cup { << Rolling(w, a) @@ Precip(">=", 10) >> : w \in 1..2, a \in {"sum", "max"} }

InitBad ==
    /\ IdleRun
    /\ call \in [fn : {"evaluate_rules"}, days : BadDaySeqs, rules : BadRuleLists]
    /\ ret = Pending

NextBad == CallEvaluateRules

SpecBad == InitBad /\ [][NextBad]_vars

----------------------------------------------------------------------------
(* The loaders under every data_use and prefer: SpecLoad serves            *)
(* apply_rules_orchestrator from databases with and without a project, a   *)
(* covering or a partial batch, baselines, and snapshot rows whose metrics *)
(* are NULL.                                                               *)

\* a batch covering the window, and a batch of its first day only
BatchPartial == [id |-> "b2", window_start |-> 1, window_end |-> 1, finished_at |-> 0]

\* the snapshot tables of a batch; per date of its window: no row, 15 mm, or
\* a row whose metric columns are all NULL
LoadSnapshotTables(b) ==
    { { [batch_id |-> b.id, row |-> DayRow(d, f[d], Num(0))] :
            d \in {x \in DOMAIN f : f[x] # Missing} } :
          f \in [b.window_start..b.window_end -> {Missing, Num(15), None}] }

\* per date: no baseline, or 5 mm pinned for the project
LoadBaselineTables(p) ==
    IF p = None THEN {{}}
    ELSE { { [project_id |-> p, pinned_at |-> 0, row |-> DayRow(d, Num(5), Num(1))] : d \in ds } :
               ds \in SUBSET (1..NDays) }

LoadDatabases ==
    UNION { { [ sector |-> TRUE, project_id |-> p, weather_batch |-> {b},
                weather_snapshot |-> snaps, weather_baseline |-> base ] :
                  snaps \in LoadSnapshotTables(b), base \in LoadBaselineTables(p) } :
              p \in {Project, None}, b \in {Batch1, BatchPartial} }
    \cup
    UNION { { [ sector |-> TRUE, project_id |-> p, weather_batch |-> {},
                weather_snapshot |-> {}, weather_baseline |-> base ] :
                  base \in LoadBaselineTables(p) } : p \in {Project, None} }

LoadRequests ==
    { [ path |-> "orchestrator", sector_id |-> Sector, start |-> 1, days |-> NDays,
        prefer |-> pf, data_use |-> du,
        rules |-> << [id |-> Str(<<"r1">>), name |-> Str(<<"Rain">>)] @@ Precip(">", 10) >>,
        mode |-> "dry_run", dedupe_minutes |-> DedupeMinutes, performed_by |-> "system" ] :
          du \in {"snapshots", "baseline", "auto", "mixed"},
          pf \in {"latest", "partial", "exact"} }

InitLoad ==
    /\ db \in LoadDatabases
    /\ issue = {} /\ rules_run = {} /\ change_log = {}
    /\ now = 0
    /\ req \in LoadRequests
    /\ pc = "idle"
    /\ txn = NoTxn
    /\ planned = <<>> /\ committed = <<>> /\ skipped = <<>> /\ idx = 1
    /\ report = NoReport /\ prev = NoReport
    /\ issue_before = {}
    /\ nruns = 0
    /\ IdleOthers
    /\ IdleFn

NextLoad == OrchStart \/ OrchStep \/ OrchPersistFails \/ OrchCommit

SpecLoad == InitLoad /\ [][NextLoad]_vars

----------------------------------------------------------------------------
(* api/v1/status.py: the PATCH endpoints of sector, lot and project status. *)
(* Each handler runs its statements in one transaction and commits at the  *)
(* end; its 404 and 409 are raised before the first UPDATE.                *)

MaxStatusCalls == 1     \* status requests of a behaviour, from any coherent state

AllowedStatus == {"planned", "in_progress", "on_hold", "completed", "canceled"}

ALLOWED_MAP ==
    [ planned     |-> {"in_progress", "on_hold", "canceled"},
      in_progress |-> {"on_hold", "completed", "canceled"},
      on_hold     |-> {"in_progress", "canceled"},
      completed   |-> {},
      canceled    |-> {} ]

\* _check_transition returns (TRUE) or raises 409 (FALSE)
_check_transition(old, new) == old = new \/ new \in ALLOWED_MAP[old]

\* faulty variant: a check that finds no open sector
OpenSectors_none(h, lot_id) == {}

\* the sectors of the lot WHERE status <> 'completed'
OpenSectors(h, lot_id) ==
    {s \in DOMAIN h.sector : h.sector[s].lot_id = lot_id /\ h.sector[s].status # "completed"}

\* the lots of the project WHERE status <> 'completed'
OpenLots(h, project_id) ==
    {l \in DOMAIN h.lot : h.lot[l].project_id = project_id /\ h.lot[l].status # "completed"}

\* UPDATE project SET status = 'completed' WHERE id = ... AND NOT EXISTS (a
\* lot of the project that is not completed)
CompleteProject(h, project_id) ==
    IF project_id \in DOMAIN h.project /\ OpenLots(h, project_id) = {}
    THEN [h EXCEPT !.project[project_id].status = "completed"]
    ELSE h

\* the row of INSERT INTO change_log ... 'status_changed'
StatusLogRow(entity, id, old, new) ==
    [ seq |-> Cardinality(change_log) + 1, entity_type |-> entity, entity_id |-> id,
      action |-> "status_changed", field |-> "status", old_value |-> old,
      new_value |-> new, changed_by |-> "system" ]

\* what is kept of a request: the entity, the status asked for, the status
\* found and the HTTP code of the answer
StatusAnswer(entity, id, new, old, code) ==
    [ n |-> status_call.n + 1, entity |-> entity, id |-> id, status |-> new,
      old |-> old, code |-> code ]

\* PATCH /v1/sectors/{sector_id}/status
set_sector_status ==
    /\ status_call.n < MaxStatusCalls
    /\ \E sector_id \in DOMAIN hierarchy.sector \cup {"S0"}, new \in AllowedStatus :
        IF sector_id \notin DOMAIN hierarchy.sector
        THEN /\ status_call' = StatusAnswer("sector", sector_id, new, "none", 404)
             /\ UNCHANGED <<hierarchy, change_log>>
        ELSE
        LET row == hierarchy.sector[sector_id]
            old == row.status
            updated == [hierarchy EXCEPT !.sector[sector_id].status = new]
            bumped == IF new = "in_progress" /\ updated.lot[row.lot_id].status = "planned"
                      THEN [updated EXCEPT !.lot[row.lot_id].status = "in_progress"]
                      ELSE updated
            all_done == new = "completed" /\ OpenSectors(bumped, row.lot_id) = {}
            lot_done == [bumped EXCEPT !.lot[row.lot_id].status = "completed"]
        IN  IF ~_check_transition(old, new)
            THEN /\ status_call' = StatusAnswer("sector", sector_id, new, old, 409)
                 /\ UNCHANGED <<hierarchy, change_log>>
            ELSE /\ status_call' = StatusAnswer("sector", sector_id, new, old, 200)
                 /\ hierarchy' = IF all_done
                                 THEN CompleteProject(lot_done, lot_done.lot[row.lot_id].project_id)
                                 ELSE bumped
                 /\ change_log' = IF all_done
                                  THEN change_log \cup {StatusLogRow("sector", sector_id, old, new)}
                                  ELSE change_log
    /\ UNCHANGED <<db, issue, rules_run, capvars, sessions, runvars, fnvars>>

\* PATCH /v1/lots/{lot_id}/status
set_lot_status ==
    /\ status_call.n < MaxStatusCalls
    /\ \E lot_id \in DOMAIN hierarchy.lot \cup {"L0"}, new \in AllowedStatus :
        IF lot_id \notin DOMAIN hierarchy.lot
        THEN /\ status_call' = StatusAnswer("lot", lot_id, new, "none", 404)
             /\ UNCHANGED <<hierarchy, change_log>>
        ELSE
        LET row == hierarchy.lot[lot_id]
            old == row.status
            updated == [hierarchy EXCEPT !.lot[lot_id].status = new]
        IN  IF ~_check_transition(old, new)
               \/ (new = "completed" /\ OpenSectors(hierarchy, lot_id) # {})
            THEN /\ status_call' = StatusAnswer("lot", lot_id, new, old, 409)
                 /\ UNCHANGED <<hierarchy, change_log>>
            ELSE /\ status_call' = StatusAnswer("lot", lot_id, new, old, 200)
                 /\ hierarchy' = IF new = "completed"
                                 THEN CompleteProject(updated, row.project_id)
                                 ELSE updated
                 /\ change_log' = IF new = "completed"
                                  THEN change_log \cup {StatusLogRow("lot", lot_id, old, new)}
                                  ELSE change_log
    /\ UNCHANGED <<db, issue, rules_run, capvars, sessions, runvars, fnvars>>

\* PATCH /v1/projects/{project_id}/status
set_project_status ==
    /\ status_call.n < MaxStatusCalls
    /\ \E project_id \in DOMAIN hierarchy.project \cup {"P0"}, new \in AllowedStatus :
        IF project_id \notin DOMAIN hierarchy.project
        THEN /\ status_call' = StatusAnswer("project", project_id, new, "none", 404)
             /\ UNCHANGED <<hierarchy, change_log>>
        ELSE
        LET old == hierarchy.project[project_id].status
        IN  IF ~_check_transition(old, new)
               \/ (new = "completed" /\ OpenLots(hierarchy, project_id) # {})
            THEN /\ status_call' = StatusAnswer("project", project_id, new, old, 409)
                 /\ UNCHANGED <<hierarchy, change_log>>
            ELSE /\ status_call' = StatusAnswer("project", project_id, new, old, 200)
                 /\ hierarchy' = [hierarchy EXCEPT !.project[project_id].status = new]
                 /\ change_log' = change_log
                                  \cup {StatusLogRow("project", project_id, old, new)}
    /\ UNCHANGED <<db, issue, rules_run, capvars, sessions, runvars, fnvars>>

\* hierarchical coherence (module docstring): a completed lot has only
\* completed sectors, a completed project only completed lots
Coherent(h) ==
    /\ \A s \in DOMAIN h.sector :
           h.lot[h.sector[s].lot_id].status = "completed" => h.sector[s].status = "completed"
    /\ \A l \in DOMAIN h.lot :
           h.project[h.lot[l].project_id].status = "completed" => h.lot[l].status = "completed"

\* project P1 with lot L1 (sectors S1 and S2) and lot L2 (no sector), in
\* every coherent assignment of statuses
Hierarchies ==
    { h \in [ sector  : [{"S1", "S2"} -> [status : AllowedStatus, lot_id : {"L1"}]],
              lot     : [{"L1", "L2"} -> [status : AllowedStatus, project_id : {"P1"}]],
              project : [{"P1"} -> [status : AllowedStatus]] ] : Coherent(h) }

InitStatus ==
    /\ db = [project_id |-> None, weather_batch |-> {}, weather_snapshot |-> {},
             weather_baseline |-> {}]
    /\ issue = {} /\ rules_run = {} /\ change_log = {}
    /\ now = 0
    /\ req = [path |-> "none"]
    /\ pc = "idle"
    /\ txn = NoTxn
    /\ planned = <<>> /\ committed = <<>> /\ skipped = <<>> /\ idx = 1
    /\ report = NoReport /\ prev = NoReport
    /\ issue_before = {}
    /\ nruns = 0
    /\ IdleFn
    /\ weather_run = {} /\ weather_run_day = {}
    /\ capture = [pc |-> "none"]
    /\ hierarchy \in Hierarchies
    /\ status_call = [n |-> 0]
    /\ sessions = <<>>

NextStatus == set_sector_status \/ set_lot_status \/ set_project_status

SpecStatus == InitStatus /\ [][NextStatus]_vars

----------------------------------------------------------------------------
(* Weather capture: POST /projects/{id}/weather/capture, create_weather_run *)

MaxTargets  == 3     \* dates a capture may ask for (date_from .. date_to)
MaxCaptures == 2     \* capture requests of a behaviour
CapToday    == 1     \* date of the run_time of every capture

\* daily data the provider may answer with (precipitation_sum, in mm)
WxValues == {[precipitation_mm |-> Num(0)], [precipitation_mm |-> Num(12)]}

\* targets of capture_weather: every date from date_from to date_to
CaptureTargets(from, to) == [i \in 1..(to - from + 1) |-> from + i - 1]

_horizon_days(run_date, target) == target - run_date

NoCapTxn == [run |-> {}, days |-> {}]

\* the capture is inside the loop over targets, before the fetch of target i
InCaptureLoop == capture.pc = "loop" /\ capture.i <= Len(capture.targets)

\* no rules run, no request and an empty database of apply-rules
IdleApplyRules ==
    /\ db = [project_id |-> None, weather_batch |-> {}, weather_snapshot |-> {},
             weather_baseline |-> {}]
    /\ issue = {} /\ rules_run = {} /\ change_log = {}
    /\ now = 0
    /\ req = [path |-> "none"]
    /\ pc = "idle"
    /\ txn = NoTxn
    /\ planned = <<>> /\ committed = <<>> /\ skipped = <<>> /\ idx = 1
    /\ report = NoReport /\ prev = NoReport
    /\ issue_before = {}
    /\ nruns = 0
    /\ IdleFn

CaptureUnchanged ==
    UNCHANGED <<db, issue, rules_run, change_log, statusvars, sessions, runvars, fnvars>>

\* capture_weather builds the targets (400 when date_from > date_to) and
\* create_weather_run inserts the weather_run row, before any fetch
capture_weather ==
    /\ capture.pc \in {"none", "done", "failed", "rejected"}
    /\ capture.n < MaxCaptures
    /\ \E from \in CapToday..MaxTargets, to \in CapToday..MaxTargets :
          IF from > to
          THEN capture' = [capture EXCEPT !.pc = "rejected", !.n = @ + 1, !.code = 400,
                                          !.targets = <<>>, !.i = 1, !.txn = NoCapTxn,
                                          !.days_written = 0, !.unfetched = {},
                                          !.run_id = 0]
          ELSE capture' = [capture EXCEPT
                              !.pc = "loop", !.n = @ + 1, !.code = 0,
                              !.run_id = capture.n + 1,
                              !.targets = CaptureTargets(from, to), !.i = 1,
                              !.txn = [run |-> {[id |-> capture.n + 1, project_id |-> "P1",
                                                 run_type |-> "snapshot",
                                                 run_date |-> CapToday]},
                                       days |-> {}],
                              !.days_written = 0, !.unfetched = {}]
    /\ UNCHANGED <<weather_run, weather_run_day>>
    /\ CaptureUnchanged

\* fetch_weather answers (from the cache while the entry lives, else from the
\* provider, filling the cache) and the day row is upserted in the transaction
FetchInsert ==
    /\ InCaptureLoop
    /\ LET target_date == capture.targets[capture.i]
           answers == IF target_date \in DOMAIN capture.cache
                      THEN {capture.cache[target_date]} ELSE WxValues
       IN \E wx \in answers :
            LET row == [run_id |-> capture.run_id, target_date |-> target_date,
                        precipitation_mm |-> wx.precipitation_mm,
                        forecast_horizon_days |-> _horizon_days(CapToday, target_date)]
                kept == {r \in capture.txn.days :
                            ~(r.run_id = row.run_id /\ r.target_date = target_date)}
            IN capture' = [capture EXCEPT
                              !.cache = [d \in DOMAIN capture.cache \cup {target_date} |->
                                            IF d = target_date THEN wx ELSE capture.cache[d]],
                              !.txn.days = kept \cup {row},
                              !.days_written = @ + 1,
                              !.i = @ + 1]
    /\ UNCHANGED <<weather_run, weather_run_day>>
    /\ CaptureUnchanged

\* fetch_weather returns None (provider disabled, request failed twice, or an
\* empty answer): the loop goes on to the next target
FetchNone ==
    /\ InCaptureLoop
    /\ capture.targets[capture.i] \notin DOMAIN capture.cache
    /\ capture' = [capture EXCEPT !.unfetched = @ \cup {capture.targets[capture.i]},
                                  !.i = @ + 1]
    /\ UNCHANGED <<weather_run, weather_run_day>>
    /\ CaptureUnchanged

\* after the loop: db.commit() and the answer
CaptureCommit ==
    /\ capture.pc = "loop" /\ capture.i > Len(capture.targets)
    /\ weather_run' = weather_run \cup capture.txn.run
    /\ weather_run_day' = weather_run_day \cup capture.txn.days
    /\ capture' = [capture EXCEPT !.pc = "done", !.code = 200, !.txn = NoCapTxn]
    /\ CaptureUnchanged

\* a statement fails in the database: the exception leaves the handler and
\* the session is closed without commit
CaptureRollback ==
    /\ capture.pc = "loop"
    /\ capture' = [capture EXCEPT !.pc = "failed", !.code = 500, !.txn = NoCapTxn]
    /\ UNCHANGED <<weather_run, weather_run_day>>
    /\ CaptureUnchanged

\* a cache entry outlives its 15 minutes
CacheExpire ==
    /\ capture.pc # "none" /\ capture.pc # "loop"
    /\ \E d \in DOMAIN capture.cache :
          capture' = [capture EXCEPT !.cache = [e \in DOMAIN capture.cache \ {d} |->
                                                   capture.cache[e]]]
    /\ UNCHANGED <<weather_run, weather_run_day>>
    /\ CaptureUnchanged

InitCapture ==
    /\ IdleApplyRules
    /\ weather_run = {} /\ weather_run_day = {}
    /\ capture = [pc |-> "none", n |-> 0, code |-> 0, run_id |-> 0, targets |-> <<>>,
                  i |-> 1, txn |-> NoCapTxn, days_written |-> 0, unfetched |-> {},
                  cache |-> <<>>]
    /\ hierarchy = [sector |-> <<>>, lot |-> <<>>, project |-> <<>>]
    /\ status_call = [n |-> 0]
    /\ sessions = <<>>

NextCapture ==
    \/ capture_weather
    \/ FetchInsert
    \/ FetchNone
    \/ CaptureCommit
    \/ CaptureRollback
    \/ CacheExpire

SpecCapture == InitCapture /\ [][NextCapture]_vars

----------------------------------------------------------------------------
(* Two commit-mode calls of apply_rules_orchestrator for the same sector   *)
(* and window, each in the database session get_db opens for its request.  *)
(* The engine sets no isolation level: a statement reads the rows that are *)
(* committed and the rows of its own transaction.                          *)

Sessions == {1, 2}

IdleSession ==
    [pc |-> "idle", txn |-> NoTxn, planned |-> <<>>, idx |-> 1, committed |-> <<>>,
     skipped |-> <<>>, code |-> 0]

\* faulty variant: a query that also reads what other sessions have not committed
VisibleTo_all(p) == issue \cup UNION {sessions[q].txn.issue : q \in Sessions}

\* rows of table issue a statement of session p reads
VisibleTo(p) == issue \cup sessions[p].txn.issue

\* _dedupe_hit, run in session p
SessionDedupeHit(p, sector_id, issue_date, title, dedupe_minutes) ==
    \E r \in VisibleTo(p) :
        /\ r.sector_id = sector_id
        /\ r.issue_date = issue_date
        /\ r.title = title
        /\ r.created_at >= sessions[p].txn.now - dedupe_minutes

\* _create_issue, run in session p
SessionCreateIssue(p, sector_id, issue_date, title, description, severity, created_by) ==
    [ id |-> <<p, sessions[p].idx>>, sector_id |-> sector_id, issue_date |-> issue_date,
      title |-> title, description |-> description, severity |-> severity,
      status |-> "open", created_by |-> created_by, created_at |-> sessions[p].txn.now ]

RaceUnchanged ==
    UNCHANGED <<db, rules_run, change_log, capvars, statusvars, fnvars, req, pc, txn,
                planned, committed, skipped, idx, report, prev, issue_before, nruns>>

\* lines 193-206 in session p: load the days, evaluate the rules, open the
\* transaction of the commit loop
SessionStart(p) ==
    /\ sessions[p].pc = "idle"
    /\ \E ctx \in {load_days_for_apply(req.start, req.days, req.prefer, req.data_use)} :
        \E engine_res \in {IF ctx.raised THEN Raise
                           ELSE evaluate_rules(req.sector_id, ctx.val.days, req.rules)} :
        \E t \in now..MaxTime :
            /\ now' = t
            /\ IF ctx.raised
               THEN sessions' = [sessions EXCEPT ![p].pc = "returned", ![p].code = ctx.code]
               ELSE IF engine_res.raised
               THEN sessions' = [sessions EXCEPT ![p].pc = "returned", ![p].code = 500]
               ELSE sessions' = [sessions EXCEPT ![p].pc = "loop",
                                                 ![p].planned = engine_res.val.planned,
                                                 ![p].txn = [NoTxn EXCEPT !.now = t]]
    /\ UNCHANGED issue
    /\ RaceUnchanged

\* one pass of `for act in planned` (lines 210-224) in session p
SessionStep(p) ==
    /\ sessions[p].pc = "loop" /\ sessions[p].idx <= Len(sessions[p].planned)
    /\ LET act == sessions[p].planned[sessions[p].idx]
           tdate == act.target.date
           title == act.title
       IN  IF act.type # "create_issue"
           THEN sessions' = [sessions EXCEPT ![p].idx = @ + 1]
           ELSE IF SessionDedupeHit(p, req.sector_id, tdate, title, req.dedupe_minutes)
           THEN sessions' = [sessions EXCEPT
                                ![p].idx = @ + 1,
                                ![p].skipped = Append(@, [type |-> "create_issue",
                                                          reason |-> "dedupe_hit",
                                                          title |-> title, date |-> tdate])]
           ELSE LET row == SessionCreateIssue(p, req.sector_id, tdate, title,
                                              act.description, act.severity,
                                              req.performed_by)
                IN  sessions' = [sessions EXCEPT
                                    ![p].idx = @ + 1,
                                    ![p].txn.issue = @ \cup {row},
                                    ![p].committed = Append(@, [type |-> "create_issue",
                                                                issue_id |-> row.id,
                                                                date |-> tdate,
                                                                title |-> title])]
    /\ UNCHANGED <<issue, now>>
    /\ RaceUnchanged

\* line 226 in session p: db.commit() after the last action
SessionCommit(p) ==
    /\ sessions[p].pc = "loop" /\ sessions[p].idx > Len(sessions[p].planned)
    /\ issue' = issue \cup sessions[p].txn.issue
    /\ sessions' = [sessions EXCEPT ![p].pc = "returned", ![p].code = 200,
                                    ![p].txn = NoTxn]
    /\ UNCHANGED now
    /\ RaceUnchanged

\* a statement of session p fails: the call raises and its transaction is
\* rolled back
SessionFails(p) ==
    /\ sessions[p].pc = "loop" /\ sessions[p].idx <= Len(sessions[p].planned)
    /\ sessions' = [sessions EXCEPT ![p].pc = "returned", ![p].code = 500,
                                    ![p].txn = NoTxn, ![p].committed = <<>>,
                                    ![p].skipped = <<>>]
    /\ UNCHANGED <<issue, now>>
    /\ RaceUnchanged

RaceRequests == {r \in Requests : r.path = "orchestrator"}

InitRace ==
    /\ db \in Databases
    /\ issue = {} /\ rules_run = {} /\ change_log = {}
    /\ now = 0
    /\ req \in {[r EXCEPT !.mode = "commit"] : r \in RaceRequests}
    /\ pc = "idle"
    /\ txn = NoTxn
    /\ planned = <<>> /\ committed = <<>> /\ skipped = <<>> /\ idx = 1
    /\ report = NoReport /\ prev = NoReport
    /\ issue_before = {}
    /\ nruns = 0
    /\ IdleFn
    /\ weather_run = {} /\ weather_run_day = {}
    /\ capture = [pc |-> "none"]
    /\ hierarchy = [sector |-> <<>>, lot |-> <<>>, project |-> <<>>]
    /\ status_call = [n |-> 0]
    /\ sessions = [p \in Sessions |-> IdleSession]

SessionStarts == \E p \in Sessions : SessionStart(p)
SessionSteps == \E p \in Sessions : SessionStep(p)
SessionCommits == \E p \in Sessions : SessionCommit(p)
SessionFailures == \E p \in Sessions : SessionFails(p)

NextRace ==
    \/ SessionStarts
    \/ SessionSteps
    \/ SessionCommits
    \/ SessionFailures

SpecRace == InitRace /\ [][NextRace]_vars

----------------------------------------------------------------------------
(* Properties of apply-rules, on the state a call leaves behind *)

Returns == pc = "returned" /\ report.status = "ok"
Fails == pc = "returned" /\ report.status = "error"

\* the date and title that identify an action of planned, committed or
\* skipped, in the orchestrator's and in the endpoint's shape
Tag(a) ==
    IF "target_date" \in DOMAIN a THEN <<fromisoformat(a.target_date), a.title>>
    ELSE IF "target" \in DOMAIN a THEN <<a.target.date, a.title>>
    ELSE <<a.date, a.title>>

Tags(as) == {Tag(as[k]) : k \in 1..Len(as)}

CountTag(as, g) == Cardinality({k \in 1..Len(as) : Tag(as[k]) = g})

----------------------------------------------------------------------------
(* C1 *)

\* C1: when a run returns its report, in commit mode planned has as many
\* actions as committed and skipped together and every planned action is in
\* exactly one of the two; in dry_run mode committed and skipped are empty
\* and planned holds one action per match
C1_PlannedPartition ==
    Returns =>
        LET a == report.actions
        IN  IF report.mode = "commit"
            THEN /\ Len(a.planned) = Len(a.committed) + Len(a.skipped)
                 /\ \A g \in Tags(a.planned) :
                        CountTag(a.planned, g) = CountTag(a.committed, g) + CountTag(a.skipped, g)
            ELSE /\ a.committed = <<>>
                 /\ a.skipped = <<>>
                 /\ Len(a.planned) = CountMatches(report.days)

\* a commit run that committed some actions and skipped others
C1_Witness ==
    /\ Returns /\ report.mode = "commit"
    /\ report.actions.committed # <<>>
    /\ report.actions.skipped # <<>>

----------------------------------------------------------------------------
(* C2 *)

\* two commit runs of apply_rules_orchestrator in a row, on the same
\* request and data, the second at most dedupe_minutes after the first
TwoCommitRuns ==
    /\ Returns /\ report.path = "orchestrator" /\ report.mode = "commit"
    /\ prev.status = "ok" /\ prev.mode = "commit"
    /\ report.t - prev.t <= req.dedupe_minutes

AllSkippedAsDedupeHit(a) ==
    /\ a.committed = <<>>
    /\ Len(a.skipped) = Len(a.planned)
    /\ \A k \in 1..Len(a.skipped) : a.skipped[k].reason = "dedupe_hit"

\* C2 as stated: the second of two commit runs inside the dedupe window
\* commits nothing and skips every planned action as a dedupe hit
C2_SecondRunCreatesNothing == TwoCommitRuns => AllSkippedAsDedupeHit(report.actions)

\* C2, amended: the second run commits no action the first run committed;
\* what it commits, the first run skipped (against an issue older than the
\* first run, which has left the window since); every other planned action
\* is skipped as a dedupe hit, so a first run that skipped nothing but its
\* own duplicates is followed by a run that commits nothing
C2_SecondRunRepeatsNoCommit ==
    TwoCommitRuns =>
        LET a == report.actions
            b == prev.actions
        IN  /\ Tags(a.committed) \cap Tags(b.committed) = {}
            /\ Tags(a.committed) \subseteq Tags(b.skipped)
            /\ Len(a.planned) = Len(a.committed) + Len(a.skipped)
            /\ \A k \in 1..Len(a.skipped) : a.skipped[k].reason = "dedupe_hit"
            /\ Tags(b.skipped) \subseteq Tags(b.committed) => AllSkippedAsDedupeHit(a)

\* the second run meets the issues the first one created
C2_Witness ==
    /\ TwoCommitRuns
    /\ prev.actions.committed # <<>>
    /\ report.actions.skipped # <<>>

----------------------------------------------------------------------------
(* C3 *)

\* the action at position k of planned was committed (the issue takes its
\* id from the position)
IsCommitted(k) ==
    \E c \in 1..Len(report.actions.committed) :
        report.actions.committed[c].issue_id = <<nruns, k>>

\* C3: in a commit run of the orchestrator, two planned actions with the
\* same rendered dedupe_key are never both committed
C3_SameKeyNeverBothCommitted ==
    (Returns /\ report.path = "orchestrator" /\ report.mode = "commit") =>
        \A j, k \in 1..Len(report.actions.planned) :
            (j < k /\ report.actions.planned[j].dedupe_key
                        = report.actions.planned[k].dedupe_key)
            => ~(IsCommitted(j) /\ IsCommitted(k))

----------------------------------------------------------------------------
(* C4 *)

\* C4: a dry_run run leaves table issue as it found it, and its planned
\* list still holds one action per match
C4_DryRunCreatesNothing ==
    (Returns /\ report.mode = "dry_run") =>
        /\ issue = issue_before
        /\ Len(report.actions.planned) = CountMatches(report.days)

\* a dry run that proposes actions, on a table that already holds issues
C4_Witness ==
    /\ Returns /\ report.mode = "dry_run"
    /\ report.actions.planned # <<>>
    /\ issue # {}

----------------------------------------------------------------------------
(* C5 *)

\* the rules_run rows of the call that just returned
AuditRows == {r \in rules_run : r.id = nruns}

\* C5: a call that returns a report, by the orchestrator or by the
\* endpoint, has written exactly one rules_run row, whose issues_created
\* is the number of committed actions
C5_OneAuditRecord ==
    Returns =>
        /\ Cardinality(AuditRows) = 1
        /\ \A r \in AuditRows : r.issues_created = Len(report.actions.committed)

----------------------------------------------------------------------------
(* C6 *)

\* position in the request's rule list of the rule of a planned action
RulePos(act) ==
    CHOOSE i \in 1..Len(req.rules) :
        /\ req.rules[i]["id"] = act.rule_id
        /\ \A j \in 1..(i - 1) : req.rules[j]["id"] # act.rule_id

\* C6: planned is in day order and, within a day, in rule order; the
\* commit loop of the orchestrator takes the actions in that order, one at
\* a time, and every issue it has created is visible to the next check, so
\* no two actions of the same date and title are committed in one run
C6_OrderedDedupeAndPersist ==
    (req.path = "orchestrator" /\ pc = "loop") =>
        /\ \A j, k \in 1..Len(planned) :
               j < k => \/ planned[j].target.date.n < planned[k].target.date.n
                        \/ /\ planned[j].target.date = planned[k].target.date
                           /\ RulePos(planned[j]) <= RulePos(planned[k])
        /\ Len(committed) + Len(skipped) = idx - 1
        /\ \A g \in Tags(SubSeq(planned, 1, idx - 1)) :
               CountTag(SubSeq(planned, 1, idx - 1), g)
                   = CountTag(committed, g) + CountTag(skipped, g)
        /\ \A c \in 1..Len(committed) :
               /\ committed[c].issue_id[2] < idx
               /\ Tag(planned[committed[c].issue_id[2]]) = Tag(committed[c])
               /\ \A e \in 1..(c - 1) :
                      committed[e].issue_id[2] < committed[c].issue_id[2]
               /\ \E r \in Visible : r.id = committed[c].issue_id
        /\ \A c, e \in 1..Len(committed) : c # e => Tag(committed[c]) # Tag(committed[e])
        /\ \A k \in 1..Len(skipped) :
               \E r \in Visible : <<r.issue_date, r.title>> = Tag(skipped[k])

\* the check of a later action has met an issue this run created
C6_Witness ==
    /\ req.path = "orchestrator" /\ pc = "loop"
    /\ committed # <<>>
    /\ \E k \in 1..Len(skipped) :
           \E r \in txn.issue : <<r.issue_date, r.title>> = Tag(skipped[k])

----------------------------------------------------------------------------
(* C7 *)

\* C7: a call that ends in an error (not found, validation, a failure while
\* persisting) leaves table issue as it found it
C7_ErrorCommitsNothing == Fails => issue = issue_before

\* the call had inserted issues when it failed, on a table holding others
C7_Witness ==
    /\ Fails
    /\ report.undone > 0
    /\ issue # {}

----------------------------------------------------------------------------
(* C8 *)

KnownOps == CompareOps \cup {"in", "between"}

\* the threshold has the shape its operator expects: a pair for between,
\* a collection for in
WellFormedThreshold(op, value) ==
    CASE op = "between" -> value.t = "list" /\ Len(value.xs) = 2
      [] op = "in"      -> value.t = "list"
      [] OTHER          -> TRUE

\* C8: cmp_value is total and fail-closed: it returns a boolean and never
\* raises, and an unknown operator, a failed numeric coercion or a malformed
\* between/in threshold gives false
C8_CmpTotalFailClosed ==
    Returned("cmp_value") =>
        /\ ~ret.raised
        /\ ret.val \in BOOLEAN
        /\ call.op \notin KnownOps => ret.val = FALSE
        /\ (call.op \in CompareOps
              /\ (float(call.actual).raised \/ float(call.value).raised))
           => ret.val = FALSE
        /\ ~WellFormedThreshold(call.op, call.value) => ret.val = FALSE

----------------------------------------------------------------------------
(* C9 *)

\* the metric is absent from the day: outside the five known metrics, the
\* key missing, or the value None
MetricAbsent(day, metric) ==
    \/ metric \notin {"weather_code", "temp_min_c", "temp_max_c",
                      "precipitation_mm", "wind_kmh"}
    \/ metric \notin DOMAIN day
    \/ day[metric] = None

IsPerDay(rule) == Get(rule, "scope", "per_day") = "per_day"
IsRolling(rule) == Get(rule, "scope", "per_day") = "rolling"

\* C9: a per_day rule never matches on missing data: on a day whose metric is
\* absent (or whose metric name is not one of the five) the evaluator yields
\* no match, the day's report lists no match and no action is planned for it
C9_NoMatchOnAbsent ==
    (Returned("evaluate_rules") /\ IsPerDay(call.rule)) =>
        /\ ~ret.raised
        /\ \A i \in 1..Len(call.days) :
               MetricAbsent(call.days[i], call.rule.metric) =>
                   /\ eval_rule_per_day(call.rule, call.days[i]) = None
                   /\ ret.val.days[i].matches = <<>>
                   /\ \A k \in 1..Len(ret.val.planned) :
                          ret.val.planned[k].target.date # call.days[i]["target_date"]

\* a run where one day lacks the metric and another day matches the rule
C9_Witness ==
    /\ Returned("evaluate_rules") /\ IsPerDay(call.rule)
    /\ ~ret.raised
    /\ \E i \in 1..Len(call.days) : MetricAbsent(call.days[i], call.rule.metric)
    /\ \E i \in 1..Len(call.days) : ret.val.days[i].matches # <<>>
    /\ ret.val.planned # <<>>

----------------------------------------------------------------------------
(* C10 *)

Present(vals) == {i \in 1..Len(vals) : vals[i] # None}

RECURSIVE SumOver(_, _)
SumOver(vals, S) ==
    IF S = {} THEN Num(0)
    ELSE LET i == CHOOSE j \in S : TRUE
         IN  NumAdd(float(vals[i]).val, SumOver(vals, S \ {i}))

\* x is the aggregate `agg` of the non-absent entries of vals
IsAggregate(x, vals, agg) ==
    LET P == Present(vals)
    IN  CASE agg = "sum"   -> x = SumOver(vals, P)
          [] agg = "count" -> x = Num(Cardinality(P))
          [] agg = "avg"   -> NumAdd(Num(0), [t |-> "num", n |-> x.n * Cardinality(P), d |-> x.d])
                                  = SumOver(vals, P)
          [] agg = "max"   -> /\ \E i \in P : float(vals[i]).val = x
                              /\ \A i \in P : NumLe(float(vals[i]).val, x)
          [] agg = "min"   -> /\ \E i \in P : float(vals[i]).val = x
                              /\ \A i \in P : NumLe(x, float(vals[i]).val)

WindowAbsent(days, metric, first, last) ==
    \A j \in first..last : MetricAbsent(days[j], metric)

\* C10: agg_block returns None for every kind when no entry is non-absent,
\* otherwise the aggregate of the non-absent entries (count counts them);
\* and a rolling rule never matches a window whose metric is absent on
\* every day, whatever the operator and the aggregate
C10_AggEmptyAbsent ==
    /\ Returned("agg_block") =>
           /\ ~ret.raised
           /\ Present(call.vals) = {} => ret.val = None
           /\ (Present(call.vals) # {} /\ call.agg \in {"sum", "avg", "max", "min", "count"})
                  => IsAggregate(ret.val, call.vals, call.agg)
    /\ (Returned("evaluate_rules") /\ IsRolling(call.rule)) =>
           /\ ~ret.raised
           /\ \A i \in 1..Len(call.days) :
                  (/\ i >= call.rule.window_days
                   /\ WindowAbsent(call.days, call.rule.metric,
                                   i - call.rule.window_days + 1, i))
                  => ret.val.days[i].matches = <<>>

\* a "<" rolling rule over two-day windows: the first window has the metric
\* absent on both days and gives no match, the next window matches
C10_Witness ==
    /\ Returned("evaluate_rules") /\ IsRolling(call.rule)
    /\ call.rule.op = "<" /\ call.rule.window_days = 2
    /\ WindowAbsent(call.days, call.rule.metric, 1, 2)
    /\ ret.val.days[2].matches = <<>>
    /\ ret.val.days[3].matches # <<>>

----------------------------------------------------------------------------
(* C11 *)

MaxOf(a, b) == IF a >= b THEN a ELSE b

\* C11: eval_rule_rolling with window_days = W over N days goes on with
\* exactly max(0, N - W + 1) windows before the horizon filter: the k-th
\* starts at index k - 1 and holds the W consecutive days from there, no
\* shorter block at the end is a window, and every match ends a window
C11_WindowCompleteness ==
    Returned("eval_rule_rolling") =>
        /\ ~ret.raised
        /\ LET W == call.rule.window_days
               N == Len(call.days)
               ws == ret.val.windows
           IN  /\ Len(ws) = MaxOf(0, N - W + 1)
               /\ \A k \in 1..Len(ws) :
                      /\ ws[k].start = k - 1
                      /\ Len(ws[k].block) = W
                      /\ \A j \in 1..W : ws[k].block[j] = call.days[k - 1 + j]
               /\ \A m \in 1..Len(ret.val.matches) :
                      \E k \in 1..Len(ws) : ret.val.matches[m][1] = ws[k].start + W - 1

\* two-day windows under a horizon limit: all the windows are candidates,
\* and one of them gives the only match
C11_Witness ==
    /\ Returned("eval_rule_rolling")
    /\ call.rule.window_days = 2
    /\ "when_horizon_max" \in DOMAIN call.rule
    /\ Len(ret.val.windows) = Len(call.days) - 1
    /\ Len(ret.val.matches) = 1

----------------------------------------------------------------------------
(* C12 *)

\* C12: for a per_day or rolling rule, a day sequence and H1 <= H2, every
\* match of a day under when_horizon_max = H1 is a match of that day under
\* when_horizon_max = H2, and under no when_horizon_max at all
C12_HorizonMonotone ==
    Returned("when_horizon_max") =>
        /\ ~ret.lo.raised
        /\ ~ret.hi.raised
        /\ \A i \in 1..Len(call.days) :
               \A m \in 1..Len(ret.lo.val.days[i].matches) :
                   \E n \in 1..Len(ret.hi.val.days[i].matches) :
                       ret.hi.val.days[i].matches[n] = ret.lo.val.days[i].matches[m]

\* the higher limit lets a match through that the lower one filtered, and
\* keeps a match the lower one gave
C12_Witness ==
    /\ Returned("when_horizon_max")
    /\ call.pair[2] # None
    /\ \E i \in 1..Len(call.days) : ret.lo.val.days[i].matches # <<>>
    /\ \E i \in 1..Len(call.days) :
           /\ ret.lo.val.days[i].matches = <<>>
           /\ ret.hi.val.days[i].matches # <<>>

----------------------------------------------------------------------------
(* C13 *)

\* the metric of the days first..last, None where a day lacks it
WindowVals(days, metric, first, last) ==
    [k \in 1..(last - first + 1) |-> Get(days[first + k - 1], metric, None)]

\* the aggregate of the non-absent entries of vals, None when there is none
WindowAggregate(vals, agg) ==
    LET P == Present(vals)
        s == SumOver(vals, P)
    IN  IF P = {} THEN None
        ELSE CASE agg = "sum"   -> s
               [] agg = "count" -> Num(Cardinality(P))
               [] agg = "avg"   -> Frac(s.n, s.d * Cardinality(P))

\* the horizon filter of a window: no day beyond the rule's limit, a day
\* that carries no horizon being beyond every limit
PassesHorizon(rule, days, first, last) ==
    \/ "when_horizon_max" \notin DOMAIN rule
    \/ \A j \in first..last :
           NumLe(Get(days[j], "forecast_horizon_days", Num(HorizonDefault)),
                 rule.when_horizon_max)

\* C13: for a rolling rule with window W, the day at (1-based) position j
\* gets a match exactly when j >= W, the window of the W days ending at j
\* passes the horizon filter and its aggregate satisfies the comparison; the
\* day gets that one match and no other, with the aggregate as
\* evidence.actual and "<aggregate>(<W>)" as evidence.aggregate
C13_RollingMatchOnLastDay ==
    (Returned("evaluate_rules") /\ Len(call.rules) = 1 /\ IsRolling(call.rules[1])) =>
        LET rule == call.rules[1]
            W == rule.window_days
            Actual(j) == WindowAggregate(WindowVals(call.days, rule.metric, j - W + 1, j),
                                         rule.aggregate)
            Qualifies(j) == /\ j >= W
                            /\ PassesHorizon(rule, call.days, j - W + 1, j)
                            /\ Actual(j) # None
                            /\ NumCmp(rule.op, Actual(j), rule.value)
        IN  /\ ~ret.raised
            /\ \A j \in 1..Len(call.days) :
                   LET ms == ret.val.days[j].matches
                   IN  IF Qualifies(j)
                       THEN /\ Len(ms) = 1
                            /\ ms[1].rule_id = rule.id
                            /\ ms[1].evidence.actual = Actual(j)
                            /\ ms[1].evidence.aggregate
                                   = Str(<<rule.aggregate, "(", ToString(W), ")">>)
                       ELSE ms = <<>>

\* 5, 6 and 0 mm with sum(3) >= 10: one match, on the third day, with
\* actual 11 and aggregate "sum(3)"
C13_Witness ==
    /\ Returned("evaluate_rules") /\ Len(call.rules) = 1 /\ IsRolling(call.rules[1])
    /\ call.rules[1].window_days = 3
    /\ call.rules[1].aggregate = "sum"
    /\ call.rules[1].op = ">="
    /\ WindowVals(call.days, "precipitation_mm", 1, 3) = <<Num(5), Num(6), Num(0)>>
    /\ ret.val.days[1].matches = <<>>
    /\ ret.val.days[2].matches = <<>>
    /\ Len(ret.val.days[3].matches) = 1
    /\ ret.val.days[3].matches[1].evidence.actual = Num(11)
    /\ ret.val.days[3].matches[1].evidence.aggregate = Str(<<"sum", "(", "3", ")">>)

----------------------------------------------------------------------------
(* C14 *)

\* position in rules of the rule with this id
RuleIndex(rules, id) == CHOOSE k \in 1..Len(rules) : rules[k].id = id

\* the day has none of the five metrics
NoData(day) == \A m \in _METRICS : Get(day, m, None) = None

\* C14: evaluate_rules returns one day report per input day, in the order
\* of the input (days without data included); the matches of a day are in
\* the order of the rule set, and a per_day rule is among them exactly when
\* it matches the day
C14_ReportsInOrder ==
    Returned("evaluate_rules") =>
        /\ ~ret.raised
        /\ Len(ret.val.days) = Len(call.days)
        /\ \A i \in 1..Len(call.days) :
               LET ms == ret.val.days[i].matches
               IN  /\ ret.val.days[i].target_date = call.days[i].target_date
                   /\ \A a, b \in 1..Len(ms) :
                          a < b => RuleIndex(call.rules, ms[a].rule_id)
                                       < RuleIndex(call.rules, ms[b].rule_id)
                   /\ \A k \in 1..Len(call.rules) :
                          IsPerDay(call.rules[k]) =>
                              ((\E a \in 1..Len(ms) : ms[a].rule_id = call.rules[k].id)
                                  <=> eval_rule_per_day(call.rules[k], call.days[i]) # None)

\* a day without data gets its (empty) report, another day gets the matches
\* of two rules
C14_Witness ==
    /\ Returned("evaluate_rules")
    /\ \E i \in 1..Len(call.days) :
           NoData(call.days[i]) /\ ret.val.days[i].matches = <<>>
    /\ \E i \in 1..Len(call.days) : Len(ret.val.days[i].matches) = 2

----------------------------------------------------------------------------
(* C15 *)

RuleOf(rules, id) == rules[RuleIndex(rules, id)]

DayOf(days, date) == days[CHOOSE i \in 1..Len(days) : days[i].target_date = date]

\* the title of the action a rule plans for a day: the rendered title
\* template, else the rule's name, else its id
ExpectedTitle(rule, day, sector_id) ==
    IF "suggest" \in DOMAIN rule /\ "title" \in DOMAIN rule.suggest
    THEN Str(render_tmpl(rule.suggest.title.s, CtxItems(day, sector_id)))
    ELSE IF "name" \in DOMAIN rule THEN rule.name
    ELSE rule.id

\* C15: the title of every planned create_issue action is the rule's
\* suggest.title rendered with the day's fields and the sector id, or
\* rule.name when the rule has no title template, or rule.id when it has no
\* name either
C15_TitleRenderedOrNamed ==
    (Returned("evaluate_rules") /\ ~ret.raised) =>
        \A k \in 1..Len(ret.val.planned) :
            LET act == ret.val.planned[k]
            IN  act.title = ExpectedTitle(RuleOf(call.rules, act.rule_id),
                                          DayOf(call.days, act.target.date), FnSector)

----------------------------------------------------------------------------
(* C16 *)

\* the dedupe key of the action a rule plans for a day: the rule's (or the
\* default) template rendered with name bound to rule.name, else to rule.id
ExpectedDedupeKey(rule, day, sector_id) ==
    LET tmpl == IF "dedupe_key_tmpl" \in DOMAIN rule THEN rule.dedupe_key_tmpl
                ELSE DefaultDedupeTmpl
        name == IF "name" \in DOMAIN rule THEN rule.name ELSE rule.id
    IN  Str(render_tmpl(tmpl.s, CtxItems(day, sector_id) \o << <<"name", name>> >>))

\* C16: the dedupe_key of every planned action is the rule's
\* dedupe_key_tmpl (by default sector, date and name) rendered with the
\* day's fields, the sector id and name = rule.name, or rule.id for a rule
\* without a name; so the default keys of two rules without a name differ
\* on the same day
C16_DedupeKeyNamesRule ==
    (Returned("evaluate_rules") /\ ~ret.raised) =>
        /\ \A k \in 1..Len(ret.val.planned) :
               LET act == ret.val.planned[k]
               IN  act.dedupe_key = ExpectedDedupeKey(RuleOf(call.rules, act.rule_id),
                                                      DayOf(call.days, act.target.date),
                                                      FnSector)
        /\ \A j, k \in 1..Len(ret.val.planned) :
               LET a == ret.val.planned[j]
                   b == ret.val.planned[k]
               IN  (/\ a.rule_id # b.rule_id
                    /\ a.target.date = b.target.date
                    /\ \A r \in {RuleOf(call.rules, a.rule_id), RuleOf(call.rules, b.rule_id)} :
                           "name" \notin DOMAIN r /\ "dedupe_key_tmpl" \notin DOMAIN r)
                   => a.dedupe_key # b.dedupe_key

----------------------------------------------------------------------------
(* C17 *)

\* no value of the context holds a brace
PlainValues(ctx) ==
    \A k \in 1..Len(ctx) :
        ctx[k][2].t = "str" =>
            \A j \in 1..Len(ctx[k][2].s) : ctx[k][2].s[j] \notin {"{", "}"}

HasKey(ctx, key) == \E k \in 1..Len(ctx) : ctx[k][1] = key

ValueOf(ctx, key) == ctx[CHOOSE k \in 1..Len(ctx) : ctx[k][1] = key][2]

\* tmpl with every placeholder {key} replaced in one pass: by the string
\* form of the key's value ("" for None) when the context has the key; a
\* placeholder whose key the context lacks is kept as it is when keep holds
\* and replaced by "" otherwise
RECURSIVE Subst(_, _, _)
Subst(tmpl, ctx, keep) ==
    IF tmpl = <<>> THEN <<>>
    ELSE IF Len(tmpl) >= 3 /\ tmpl[1] = "{" /\ tmpl[3] = "}"
    THEN (IF HasKey(ctx, tmpl[2])
          THEN (IF ValueOf(ctx, tmpl[2]) = None THEN <<>> ELSE PyStr(ValueOf(ctx, tmpl[2])))
          ELSE IF keep THEN SubSeq(tmpl, 1, 3)
          ELSE <<>>)
         \o Subst(SubSeq(tmpl, 4, Len(tmpl)), ctx, keep)
    ELSE <<tmpl[1]>> \o Subst(Tail(tmpl), ctx, keep)

----------------------------------------------------------------------------
(* Properties of the loaders (SpecLoad) *)

\* the pinned baselines of the sector's project for date d
BaselinesOn(d) ==
    {b \in db.weather_baseline :
         b.project_id = db.project_id /\ b.row["target_date"] = Date(d)}

\* the rows of the batch picked for the request's window for date d
SnapshotsOn(d) ==
    LET pick == _pick_batch_for_window(req.start, req.start + req.days - 1, req.prefer)
    IN  IF pick.raised \/ pick.val = None THEN {}
        ELSE {r \in db.weather_snapshot :
                  r.batch_id = pick.val.id /\ r.row["target_date"] = Date(d)}

MetricKeys == {"weather_code", "temp_min_c", "temp_max_c", "precipitation_mm", "wind_kmh"}

\* day carries the date and the metrics of row
SameWeather(day, row) ==
    /\ MetricKeys \cup {"target_date"} \subseteq DOMAIN day
    /\ \A k \in MetricKeys \cup {"target_date"} : day[k] = row[k]

Flagged(date) == \E k \in 1..Len(report.warnings) : report.warnings[k] = date

C19_EmptyDaysFlagged ==
    Returns =>
        \A i \in 1..Len(report.days) :
            LET v == report.days[i].values
            IN  (v.weather_code = None /\ v.precipitation_mm = None)
                    <=> Flagged(report.days[i].target_date)

\* C20: when the sector has no project, load_days_for_apply fails with 422
\* for data_use baseline, auto and mixed, before a day is loaded or a rule
\* evaluated
C20_NoProjectIs422 ==
    (pc = "returned" /\ db.project_id = None
        /\ req.data_use \in {"baseline", "auto", "mixed"}) =>
            /\ Fails /\ report.code = 422
            /\ load_days_for_apply(req.start, req.days, req.prefer, req.data_use)
                   = HttpError(422)

----------------------------------------------------------------------------
(* Properties of the horizon filter of rolling rules and of the renderer *)

\* some day of first..last is more than limit days ahead, a day that
\* carries no forecast_horizon_days being 0 days ahead
ExceedsHorizon(days, first, last, limit) ==
    \E k \in first..last :
        NumLt(limit, Get(days[k], "forecast_horizon_days", Num(0)))

\* C23: with when_horizon_max = H, eval_rule_rolling skips a window exactly
\* when one of its days has forecast_horizon_days > H; a window none of
\* whose days exceeds H, a day without forecast_horizon_days counting as
\* horizon 0, is aggregated and compared
C23_SkipsOnlyWindowsOverHorizon ==
    (Returned("evaluate_rules") /\ Len(call.rules) = 1 /\ IsRolling(call.rules[1])
        /\ "when_horizon_max" \in DOMAIN call.rules[1]) =>
        LET rule == call.rules[1]
            W == rule.window_days
            Actual(j) == WindowAggregate(WindowVals(call.days, rule.metric, j - W + 1, j),
                                         rule.aggregate)
        IN  /\ ~ret.raised
            /\ \A j \in W..Len(call.days) :
                   (ret.val.days[j].matches # <<>>) <=>
                       /\ ~ExceedsHorizon(call.days, j - W + 1, j, rule.when_horizon_max)
                       /\ Actual(j) # None
                       /\ NumCmp(rule.op, Actual(j), rule.value)

ReverseItems(ctx) == [k \in 1..Len(ctx) |-> ctx[Len(ctx) + 1 - k]]

\* C25: render_tmpl is a single-pass literal substitution: the text put in
\* for a placeholder is not scanned again, so a context value holding "{k}"
\* for another key k shows literally, and the result is the same for every
\* order of the keys of the context
C25_SinglePass ==
    Returned("render_tmpl") =>
        /\ ret.val = Subst(call.tmpl, call.ctx, TRUE)
        /\ ret.val = render_tmpl(call.tmpl, ReverseItems(call.ctx))

\* the value is a number or stands for one
IsNumeric(v) == v # None /\ ~float(v).raised

\* C24: a bad data point never aborts the evaluation: on days where a
\* metric value is not a number or is missing, evaluate_rules returns its
\* report, for per_day and for rolling rules; the bad value only takes away
\* the matches of the days or windows that read it
C24_BadValueNeverAborts ==
    Returned("evaluate_rules") =>
        /\ ~ret.raised
        /\ Len(ret.val.days) = Len(call.days)
        /\ \A j \in 1..Len(call.days) :
               LET rule == call.rules[1]
                   first == IF IsRolling(rule) THEN j - rule.window_days + 1 ELSE j
                   vals == WindowVals(call.days, rule.metric, MaxOf(first, 1), j)
               IN  (first >= 1 /\ \A k \in 1..Len(vals) : IsNumeric(vals[k]))
                       => ret.val.days[j].matches # <<>>

----------------------------------------------------------------------------
(* Properties of the apply-rules endpoint's commit path and audit record *)

EndpointCommitReturns ==
    Returns /\ report.path = "endpoint" /\ report.mode = "commit"

\* C29: in the endpoint's commit path the title stored with a created issue
\* is the string the dedupe check compares against, for every title; so the
\* same request run again inside the dedupe window skips every action as
\* deduped and creates no issue
C29_StoredTitleIsDedupeTitle ==
    /\ EndpointCommitReturns =>
           \A k \in 1..Len(report.actions.committed) :
               \E r \in issue : /\ r.id = report.actions.committed[k].issue_id
                                /\ r.title = report.actions.committed[k].title
    /\ ( /\ EndpointCommitReturns
         /\ prev.status = "ok" /\ prev.mode = "commit"
         /\ report.t - prev.t <= req.dedupe_minutes
         /\ prev.actions.skipped = <<>> ) =>
           /\ report.actions.committed = <<>>
           /\ Len(report.actions.skipped) = Len(report.actions.planned)
           /\ issue = issue_before

\* C30: in the endpoint, days_analyzed of the audit record and stats.days of
\* the response are the requested number of days, and window_end is
\* window_start plus that number minus one
C30_DaysAnalyzedIsRequestedDays ==
    (Returns /\ report.path = "endpoint") =>
        /\ report.stats.days = Num(req.days)
        /\ report.context.window_end = report.context.window_start + req.days - 1
        /\ \A row \in rules_run :
               row.id = nruns =>
                   /\ row.days_analyzed = Num(req.days)
                   /\ row.window_end = row.window_start + req.days - 1

----------------------------------------------------------------------------
(* Properties of the status endpoints (SpecStatus) *)

\* the last status request changed the status of its entity
StatusChanged ==
    status_call.n > 0 /\ status_call.code = 200 /\ status_call.old # status_call.status

\* C26: every successful status change made through set_sector_status,
\* set_lot_status or set_project_status writes a change_log row for the
\* changed entity with its old and new status, whatever the new status
C26_StatusChangeLogged ==
    StatusChanged =>
        \E row \in change_log :
            /\ row.entity_type = status_call.entity
            /\ row.entity_id = status_call.id
            /\ row.old_value = status_call.old
            /\ row.new_value = status_call.status

\* C27: from a coherent state, every sequence of status requests leaves
\* every completed lot with all its sectors completed and every completed
\* project with all its lots completed
C27_HierarchicalCoherence ==
    /\ \A l \in DOMAIN hierarchy.lot :
           hierarchy.lot[l].status = "completed" =>
               \A s \in DOMAIN hierarchy.sector :
                   hierarchy.sector[s].lot_id = l => hierarchy.sector[s].status = "completed"
    /\ \A p \in DOMAIN hierarchy.project :
           hierarchy.project[p].status = "completed" =>
               \A l \in DOMAIN hierarchy.lot :
                   hierarchy.lot[l].project_id = p => hierarchy.lot[l].status = "completed"

\* the last sector of lot L1 is completed: the lot and, its other lot being
\* completed, the project are completed with it
C27_Witness ==
    /\ StatusChanged
    /\ status_call.entity = "sector" /\ status_call.status = "completed"
    /\ hierarchy.lot["L1"].status = "completed"
    /\ hierarchy.project["P1"].status = "completed"
    /\ \A s \in DOMAIN hierarchy.sector : hierarchy.sector[s].status = "completed"

\* the status goes from old to new by a transition of ALLOWED_MAP, or stays
AllowedStep(old, new) == old = new \/ new \in ALLOWED_MAP[old]

\* C28: every status change of a sector, lot or project, the automatic
\* changes of a lot or project included, is a transition ALLOWED_MAP allows;
\* so a completed or canceled lot or project never changes its status
C28_OnlyAllowedTransitions ==
    [][ /\ \A s \in DOMAIN hierarchy.sector :
               AllowedStep(hierarchy.sector[s].status, hierarchy'.sector[s].status)
        /\ \A l \in DOMAIN hierarchy.lot :
               AllowedStep(hierarchy.lot[l].status, hierarchy'.lot[l].status)
        /\ \A p \in DOMAIN hierarchy.project :
               AllowedStep(hierarchy.project[p].status, hierarchy'.project[p].status) ]_vars

----------------------------------------------------------------------------
(* Properties of the weather capture (SpecCapture) *)

\* the capture answered after a fetch of one of its targets had failed
CaptureWithFailedFetch == capture.pc = "done" /\ capture.unfetched # {}

\* C21: a failed provider fetch aborts the capture before anything is
\* persisted: when the fetch of any target date failed, no weather_run row
\* and no weather_run_day row of that capture is stored
C21_FailedFetchPersistsNothing ==
    CaptureWithFailedFetch =>
        /\ \A r \in weather_run : r.id # capture.run_id
        /\ \A r \in weather_run_day : r.run_id # capture.run_id

----------------------------------------------------------------------------
(* Properties of concurrent apply-rules calls (SpecRace) *)

\* the issue the dedupe check of session p looks for at its position is
\* among the committed rows or the rows of p's own transaction
SeenBy(p) ==
    LET act == sessions[p].planned[sessions[p].idx]
    IN  \E r \in issue \cup sessions[p].txn.issue :
            /\ r.sector_id = req.sector_id
            /\ r.issue_date = act.target.date
            /\ r.title = act.title
            /\ r.created_at >= sessions[p].txn.now - req.dedupe_minutes

\* session p made a pass of its commit loop
Passed(p) ==
    /\ sessions[p].pc = "loop" /\ sessions'[p].pc = "loop"
    /\ sessions'[p].idx = sessions[p].idx + 1

\* C22: exactly-once issue creation is not guaranteed across concurrent
\* commit-mode calls for the same sector and window: the dedupe check of a
\* call reads committed rows and its own, never the uncommitted rows of the
\* other call, so both calls may pass the check before either commits and
\* both persist an issue of the same sector, date and title
C22_DedupeBlindToUncommitted ==
    [][ \A p \in Sessions :
            Passed(p) =>
                ((sessions'[p].txn.issue # sessions[p].txn.issue) <=> ~SeenBy(p)) ]_vars

\* both calls have committed, and table issue holds one row of each for the
\* same sector, date and title, created inside each other's dedupe window
C22_Witness ==
    /\ \A p \in Sessions : sessions[p].pc = "returned" /\ sessions[p].code = 200
    /\ \E r1 \in issue, r2 \in issue :
          /\ r1.id[1] = 1 /\ r2.id[1] = 2
          /\ r1.sector_id = r2.sector_id
          /\ r1.issue_date = r2.issue_date
          /\ r1.title = r2.title
          /\ r1.created_at - r2.created_at <= req.dedupe_minutes
          /\ r2.created_at - r1.created_at <= req.dedupe_minutes

====
